---- MODULE Spec2Model ----
(***************************************************************************)
(* Tool handlers of the remote MCP server: the deployment orchestrator     *)
(* (deployMCPServer), the secret batch processor (setWorkerSecrets) and    *)
(* the single-call tools.                                                  *)
(* A handler is an async function: it runs atomically from one await of a  *)
(* CloudflareAPI call to the next, so every action below is the code       *)
(* between two suspension points.                                          *)
(***************************************************************************)
EXTENDS Integers, Sequences, FiniteSets, TLC

VARIABLES dep, sws, tool, client, server, caller

vars == <<dep, sws, tool, client, server, caller>>

(***************************************************************************)
(* Bounds and input domains                                                *)
(***************************************************************************)

\* Longest secret list handed to setWorkerSecrets.
MaxSecrets == 3

\* Most calls of the audit recorder that throw during one invocation.
MaxAuditFaults == 2

\* Longest resource name sent to a tool.
MaxNameLen == 2

\* validateWorkerCode: 1024 * 1024 characters.
MaxCodeLength == 1048576

\* Handler invocations that may be alive at the same time.
Invocations == {1, 2}

\* JavaScript values: undefined, the empty string, a non-empty string.
Undefined == "undefined"

Null == [type |-> "null"]

Truthy(s) == s /= Undefined /\ s /= ""

OptionalStrings == {Undefined, "", "value"}

\* env.CLOUDFLARE_ACCOUNT_ID and env.CLOUDFLARE_API_TOKEN
Envs ==
  [CLOUDFLARE_ACCOUNT_ID : {Undefined, "", "acct"},
   CLOUDFLARE_API_TOKEN : {Undefined, "", "token"}]

\* The optional arguments of deployMCPServer (the schema lets each of them
\* be absent or any string, the empty one included).
DeployArgs ==
  [databaseUrl : OptionalStrings,
   supabaseUrl : OptionalStrings,
   supabaseAnonKey : OptionalStrings]

\* A resource name is a sequence of characters; requests draw the characters
\* from one lower-case letter, one upper-case letter, one digit, the hyphen,
\* the underscore, the space and the line feed.
NameAlphabet == {"a", "Z", "7", "-", "_", " ", "\n"}

Names == UNION {[1..n -> NameAlphabet] : n \in 0..MaxNameLen}

LowerCaseLetters ==
  {"a", "b", "c", "d", "e", "f", "g", "h", "i", "j", "k", "l", "m",
   "n", "o", "p", "q", "r", "s", "t", "u", "v", "w", "x", "y", "z"}

UpperCaseLetters ==
  {"A", "B", "C", "D", "E", "F", "G", "H", "I", "J", "K", "L", "M",
   "N", "O", "P", "Q", "R", "S", "T", "U", "V", "W", "X", "Y", "Z"}

Digits == {"0", "1", "2", "3", "4", "5", "6", "7", "8", "9"}

\* A variant without the anchors: one character of the class is enough.
MatchesResourceName_Unanchored(name) ==
  \E k \in 1..Len(name) :
    name[k] \in LowerCaseLetters \cup UpperCaseLetters \cup Digits \cup {"-", "_"}

\* /^[a-zA-Z0-9\-_]+$/ (no flags: $ is the end of the input)
MatchesResourceName(name) ==
  /\ Len(name) >= 1
  /\ \A k \in 1..Len(name) :
       name[k] \in LowerCaseLetters \cup UpperCaseLetters \cup Digits \cup {"-", "_"}

\* A code payload, by the properties the handlers look at: code.length,
\* whether code.trim() is empty, whether a dangerous pattern matches.  A
\* blank payload matches no pattern and a payload of one character neither.
Codes ==
  {c \in [length : {0, 1, MaxCodeLength, MaxCodeLength + 1},
          blank : BOOLEAN, dangerous : BOOLEAN] :
     /\ c.length = 0 => c.blank
     /\ c.blank => ~c.dangerous
     /\ c.length = 1 => ~c.dangerous}

PlainCode(length) == [length |-> length, blank |-> FALSE, dangerous |-> FALSE]

\* The name and code arguments of a deployMCPServer request.
DeployRequests ==
  [name : Names,
   code : {[length |-> 0, blank |-> TRUE, dangerous |-> FALSE],
           PlainCode(1), PlainCode(MaxCodeLength + 1)}]

\* DeployMCPServerSchema: name is min(1) and the regex, code is min(1); the
\* other required strings are taken non-empty.
DeployMCPServerSchema(request) ==
  /\ Len(request.name) >= 1
  /\ MatchesResourceName(request.name)
  /\ request.code.length >= 1

\* A variant that measures the code before it looks at it.
validateWorkerCode_SizeFirst(code) ==
  IF code.length > MaxCodeLength
  THEN [isValid |-> FALSE, error |-> "Code is too large (maximum 1MB allowed)"]
  ELSE IF code.blank
  THEN [isValid |-> FALSE, error |-> "Worker code cannot be empty"]
  ELSE IF code.dangerous
  THEN [isValid |-> FALSE, error |-> "Code contains potentially dangerous patterns"]
  ELSE [isValid |-> TRUE, error |-> Undefined]

\* validateWorkerCode
validateWorkerCode(code) ==
  IF code.blank
  THEN [isValid |-> FALSE, error |-> "Worker code cannot be empty"]
  ELSE IF code.dangerous
  THEN [isValid |-> FALSE, error |-> "Code contains potentially dangerous patterns"]
  ELSE IF code.length > MaxCodeLength
  THEN [isValid |-> FALSE, error |-> "Code is too large (maximum 1MB allowed)"]
  ELSE [isValid |-> TRUE, error |-> Undefined]

(***************************************************************************)
(* What a CloudflareAPI method gives back to the awaiting handler: the     *)
(* provider's envelope, or a thrown transport/parse error.  An entry of    *)
(* errors is represented by its message.                                   *)
(***************************************************************************)
Envelope(success, errors, result) ==
  [kind |-> "envelope", success |-> success, errors |-> errors, result |-> result]

Thrown(message) == [kind |-> "throw", message |-> message]

ErrorLists == {<<>>, <<"first error", "second error">>}

\* createKVNamespace may also answer success:true without a result.
KVOutcomes ==
  {Envelope(TRUE, <<>>, [type |-> "object", id |-> id]) : id \in {"kv-1", "kv-2"}}
    \cup {Envelope(TRUE, <<>>, Null)}
    \cup {Envelope(FALSE, errs, Null) : errs \in ErrorLists}
    \cup {Thrown("fetch failed")}

DeployOutcomes ==
  {Envelope(TRUE, <<>>, [type |-> "object", id |-> "worker-1"])}
    \cup {Envelope(FALSE, errs, Null) : errs \in ErrorLists}
    \cup {Thrown("fetch failed")}

SecretOutcomes ==
  {Envelope(TRUE, <<>>, [type |-> "object", id |-> "secret"])}
    \cup {Envelope(FALSE, errs, Null) : errs \in ErrorLists}
    \cup {Thrown("fetch failed")}

\* result.errors?.[0]?.message
FirstErrorMessage(errors) ==
  IF Len(errors) > 0 THEN errors[1] ELSE Undefined

\* a || b on strings
OrElse(a, b) == IF Truthy(a) THEN a ELSE b

(***************************************************************************)
(* logDeploymentOperation: one audit entry, appended synchronously.        *)
(***************************************************************************)
logDeploymentOperation(audit, operation, success, details) ==
  Append(audit, [operation |-> operation, success |-> success, details |-> details])

(***************************************************************************)
(* deployMCPServer                                                         *)
(***************************************************************************)
NoResponse == [kind |-> "none"]

PendingSteps ==
  [kvNamespace |-> [status |-> "pending", result |-> Null],
   durableObjects |-> [status |-> "pending", result |-> Null],
   workerDeployment |-> [status |-> "pending", result |-> Null],
   secrets |-> [status |-> "pending", result |-> Null]]

DeployIdle ==
  [pc |-> "idle",
   env |-> [CLOUDFLARE_ACCOUNT_ID |-> Undefined, CLOUDFLARE_API_TOKEN |-> Undefined],
   request |-> [name |-> <<"a">>, code |-> PlainCode(1)],
   args |-> [databaseUrl |-> Undefined, supabaseUrl |-> Undefined,
             supabaseAnonKey |-> Undefined],
   deploymentSteps |-> PendingSteps,
   secretsToSet |-> <<>>,
   secretResults |-> <<>>,
   calls |-> <<>>,
   returns |-> <<>>,
   inflight |-> {},
   audit |-> <<>>,
   auditFaults |-> 0,
   auditCalls |-> 0,
   response |-> NoResponse]

\* Issue a CloudflareAPI call: the request leaves, the handler awaits it.
IssueCall(d, op, arg, waitPc) ==
  [d EXCEPT !.calls = Append(@, [op |-> op, arg |-> arg]),
            !.inflight = {Len(d.calls) + 1},
            !.pc = waitPc]

\* An awaited call settles: the handler resumes with what the call gave back.
\* returns[k] is what calls[k] gave back.
Receive(d, out) ==
  [d EXCEPT !.returns = Append(@, out), !.inflight = {}]

Succeeded(out) == out.kind = "envelope" /\ out.success

\* The outer catch block: audit the error and answer with it.  The audit
\* call is not guarded: when it throws here the exception leaves the handler.
UnexpectedError(d, message) ==
  IF d.auditFaults > 0
  THEN [d EXCEPT !.pc = "done",
                 !.auditFaults = @ - 1,
                 !.auditCalls = @ + 1,
                 !.response = [kind |-> "exception", heading |-> Undefined,
                               message |-> message]]
  ELSE [d EXCEPT !.pc = "done",
                 !.auditCalls = @ + 1,
                 !.audit = logDeploymentOperation(@, "deploy_mcp_server", FALSE,
                             [error |-> message]),
                 !.response = [kind |-> "unexpected_error",
                               heading |-> "**Error**",
                               title |-> "Unexpected error deploying MCP server",
                               error |-> message]]

\* A variant that returns without calling the audit recorder.
Audited_NotCalled(d, success, details, response) ==
  [d EXCEPT !.pc = "done", !.response = response]

\* logDeploymentOperation(...) followed by return {...} inside the outer try.
\* auditFaults is the number of coming calls of the recorder that throw; a
\* throw inside the try block is caught by the outer catch.
Audited(d, success, details, response) ==
  IF d.auditFaults > 0
  THEN UnexpectedError([d EXCEPT !.auditFaults = @ - 1, !.auditCalls = @ + 1],
                       "audit recorder failed")
  ELSE [d EXCEPT !.pc = "done",
                 !.auditCalls = @ + 1,
                 !.audit = logDeploymentOperation(@, "deploy_mcp_server",
                                                  success, details),
                 !.response = response]

\* A variant that puts the database URL after the backing-store pair.
SecretsToSet_DatabaseLast(args) ==
  <<"GITHUB_CLIENT_ID", "GITHUB_CLIENT_SECRET">>
    \o (IF Truthy(args.supabaseUrl) THEN <<"SUPABASE_URL">> ELSE <<>>)
    \o (IF Truthy(args.supabaseAnonKey) THEN <<"SUPABASE_ANON_KEY">> ELSE <<>>)
    \o (IF Truthy(args.databaseUrl) THEN <<"DATABASE_URL">> ELSE <<>>)

\* secretsToSet, built from the arguments
SecretsToSet(args) ==
  <<"GITHUB_CLIENT_ID", "GITHUB_CLIENT_SECRET">>
    \o (IF Truthy(args.databaseUrl) THEN <<"DATABASE_URL">> ELSE <<>>)
    \o (IF Truthy(args.supabaseUrl) THEN <<"SUPABASE_URL">> ELSE <<>>)
    \o (IF Truthy(args.supabaseAnonKey) THEN <<"SUPABASE_ANON_KEY">> ELSE <<>>)

\* A variant that starts the plan with the code deployment.
DeployStart_DeployFirst(env, args) ==
  LET d0 == [DeployIdle EXCEPT !.env = env, !.args = args]
  IN IF ~Truthy(env.CLOUDFLARE_ACCOUNT_ID) \/ ~Truthy(env.CLOUDFLARE_API_TOKEN)
     THEN [d0 EXCEPT
             !.pc = "done",
             !.audit = logDeploymentOperation(@, "deploy_mcp_server", FALSE,
                         [error |-> "Missing Cloudflare credentials"]),
             !.response = [kind |-> "config_error",
                           heading |-> "**Error**",
                           title |-> "Cloudflare credentials not configured"]]
     ELSE IssueCall(d0, "deployWorker", "name", "kv_wait")

\* The handler body up to the first await: the credentials check, then the
\* createKVNamespace call of step 1.
DeployEnter(d0) ==
  IF ~Truthy(d0.env.CLOUDFLARE_ACCOUNT_ID) \/ ~Truthy(d0.env.CLOUDFLARE_API_TOKEN)
  THEN Audited(d0, FALSE, [error |-> "Missing Cloudflare credentials"],
               [kind |-> "config_error",
                heading |-> "**Error**",
                title |-> "Cloudflare credentials not configured"])
  ELSE IssueCall(d0, "createKVNamespace", "oauth-kv", "kv_wait")

\* From the invocation to the first await.
DeployStart(env, args) ==
  DeployEnter([DeployIdle EXCEPT !.env = env, !.args = args])

\* A variant that asks for the namespace a second time when the first call
\* failed.
KvSettle_Retry(d, out) ==
  LET ok == Succeeded(out) /\ out.result /= Null
      d1 == [Receive(d, out) EXCEPT !.deploymentSteps.kvNamespace =
                        IF ok THEN [status |-> "success", result |-> out.result]
                              ELSE [status |-> "failed", result |-> Null]]
  IN IF ~ok /\ Len(d.calls) = 1
     THEN IssueCall(d1, "createKVNamespace", "oauth-kv", "kv_wait")
     ELSE IssueCall(d1, "deployWorker", "name", "deploy_wait")

\* Step 1 resumes: record the namespace outcome, then issue deployWorker.
\* Reading kvData.result.id of a null result throws inside the try, and the
\* catch marks the step failed.
KvSettle(d, out) ==
  LET ok == Succeeded(out) /\ out.result /= Null
      d1 == [Receive(d, out) EXCEPT !.deploymentSteps.kvNamespace =
                        IF ok THEN [status |-> "success", result |-> out.result]
                              ELSE [status |-> "failed", result |-> Null]]
  IN IssueCall(d1, "deployWorker", "name", "deploy_wait")

\* A variant that removes the namespace of step 1 when step 2 fails.
DeployFailure_Rollback(d, message) ==
  LET undo == IF Succeeded(d.returns[1]) /\ d.returns[1].result /= Null
              THEN <<[op |-> "deleteKVNamespace", arg |-> d.returns[1].result.id]>>
              ELSE <<>>
  IN Audited([d EXCEPT !.calls = @ \o undo], FALSE,
             [error |-> message, steps |-> d.deploymentSteps],
             [kind |-> "deploy_failed",
              heading |-> "**Error**",
              title |-> "Worker deployment failed",
              error |-> message,
              completedSteps |-> d.deploymentSteps])

\* Step 2 failed (the catch block): audit the failure and return.
DeployFailure(d, message) ==
  Audited(d, FALSE, [error |-> message, steps |-> d.deploymentSteps],
          [kind |-> "deploy_failed",
           heading |-> "**Error**",
           title |-> "Worker deployment failed",
           error |-> message,
           completedSteps |-> d.deploymentSteps])

\* A variant that submits every secret at once instead of one at a time.
DeployContinue_AllAtOnce(d, out) ==
  LET secretsToSet == SecretsToSet(d.args)
      n == Len(d.calls)
  IN [d EXCEPT !.deploymentSteps.workerDeployment =
                 [status |-> "success", result |-> out.result],
               !.deploymentSteps.durableObjects =
                 [status |-> "success",
                  result |-> [type |-> "object", id |-> "MCP_OBJECT"]],
               !.secretsToSet = secretsToSet,
               !.calls = @ \o [k \in 1..Len(secretsToSet) |->
                                 [op |-> "setWorkerSecret", arg |-> secretsToSet[k]]],
               !.inflight = (n + 1)..(n + Len(secretsToSet)),
               !.pc = "secret_wait"]

\* Step 2 succeeded: record it, step 3 (no await), build the secret list
\* and issue the first setWorkerSecret call of the loop.
DeployContinue(d, out) ==
  LET secretsToSet == SecretsToSet(d.args)
      d1 == [d EXCEPT !.deploymentSteps.workerDeployment =
                        [status |-> "success", result |-> out.result],
                      !.deploymentSteps.durableObjects =
                        [status |-> "success",
                         result |-> [type |-> "object", id |-> "MCP_OBJECT"]],
                      !.secretsToSet = secretsToSet]
  IN IssueCall(d1, "setWorkerSecret", secretsToSet[1], "secret_wait")

\* A variant in which a failed deployWorker does not end the invocation.
DeploySettle_NoAbort(d, out) ==
  DeployContinue(Receive(d, out),
                 IF Succeeded(out) THEN out ELSE Envelope(FALSE, <<>>, Null))

\* Step 2 resumes.  A failure is fatal; otherwise the plan goes on.
DeploySettle(d, out) ==
  LET message == IF out.kind = "throw" THEN out.message
                 ELSE OrElse(FirstErrorMessage(out.errors), "Worker deployment failed")
  IN IF ~Succeeded(out)
     THEN DeployFailure(Receive(d, out), message)
     ELSE DeployContinue(Receive(d, out), out)

\* The entry pushed to secretResults for one settled setWorkerSecret call.
SecretResult(name, out) ==
  IF Succeeded(out)
  THEN [name |-> name, status |-> "success", error |-> Undefined]
  ELSE IF out.kind = "envelope"
  THEN [name |-> name, status |-> "failed", error |-> FirstErrorMessage(out.errors)]
  ELSE [name |-> name, status |-> "failed", error |-> out.message]

\* secretResults.filter(s => s.status === 'success').map(s => s.name)
ConfiguredNames(secretResults) ==
  LET ok == SelectSeq(secretResults, LAMBDA s : s.status = "success")
  IN [k \in 1..Len(ok) |-> ok[k].name]

\* A variant that calls the step partial as soon as one secret failed.
SecretsStatus_PartialOnAnyFailure(secretResults) ==
  IF \A k \in 1..Len(secretResults) : secretResults[k].status = "success"
  THEN "success"
  ELSE "partial"

\* Status of the secrets step.
SecretsStatus(secretResults) ==
  IF \A k \in 1..Len(secretResults) : secretResults[k].status = "success"
  THEN "success"
  ELSE IF \E k \in 1..Len(secretResults) : secretResults[k].status = "success"
  THEN "partial"
  ELSE "failed"

\* A variant that writes the namespace binding whatever step 1 left.
WranglerConfig_AlwaysBound(steps) ==
  [kv_namespaces |->
     <<[binding |-> "OAUTH_KV",
        id |-> IF steps.kvNamespace.result /= Null
               THEN steps.kvNamespace.result.id ELSE Undefined]>>,
   durable_objects |-> <<[name |-> "MCP_OBJECT", class_name |-> "MyMCP"]>>]

\* wranglerConfig
WranglerConfig(steps) ==
  [kv_namespaces |->
     IF steps.kvNamespace.result /= Null
     THEN <<[binding |-> "OAUTH_KV", id |-> steps.kvNamespace.result.id]>>
     ELSE <<>>,
   durable_objects |-> <<[name |-> "MCP_OBJECT", class_name |-> "MyMCP"]>>]

\* After the loop: wranglerConfig, deploymentResult, audit, response.
Finalize(d) ==
  LET steps == [d.deploymentSteps EXCEPT
                  !.secrets = [status |-> SecretsStatus(d.secretResults),
                               result |-> [type |-> "array", items |-> d.secretResults]]]
      wranglerConfig == WranglerConfig(steps)
      deploymentResult ==
        [status |-> "deployed",
         kvNamespace |-> steps.kvNamespace.result,
         secrets |->
           [configured |-> ConfiguredNames(d.secretResults),
            failed |-> SelectSeq(d.secretResults, LAMBDA s : s.status = "failed")],
         wranglerConfig |-> wranglerConfig,
         deploymentSteps |-> steps]
  IN Audited([d EXCEPT !.deploymentSteps = steps], TRUE, deploymentResult,
             [kind |-> "deployed",
              heading |-> "**Success**",
              title |-> "deployed successfully",
              deploymentResult |-> deploymentResult])

\* A variant that leaves the loop at the first secret that fails.
SecretSettle_StopOnFailure(d, out) ==
  LET name == d.secretsToSet[Len(d.secretResults) + 1]
      d1 == [Receive(d, out) EXCEPT !.secretResults = Append(@, SecretResult(name, out))]
  IN IF Len(d1.secretResults) < Len(d1.secretsToSet) /\ Succeeded(out)
     THEN IssueCall(d1, "setWorkerSecret",
                    d1.secretsToSet[Len(d1.secretResults) + 1], "secret_wait")
     ELSE Finalize(d1)

\* A variant that, after a secret failed, awaits a call it never issued.
SecretSettle_AwaitNothing(d, out) ==
  LET name == d.secretsToSet[Len(d.secretResults) + 1]
      d1 == [Receive(d, out) EXCEPT !.secretResults = Append(@, SecretResult(name, out))]
  IN IF ~Succeeded(out)
     THEN [d1 EXCEPT !.pc = "never_settles"]
     ELSE IF Len(d1.secretResults) < Len(d1.secretsToSet)
     THEN IssueCall(d1, "setWorkerSecret",
                    d1.secretsToSet[Len(d1.secretResults) + 1], "secret_wait")
     ELSE Finalize(d1)

\* One iteration of the secrets loop resumes: push the outcome, then issue
\* the call for the next secret or leave the loop.
SecretSettle(d, out) ==
  LET name == d.secretsToSet[Len(d.secretResults) + 1]
      d1 == [Receive(d, out) EXCEPT !.secretResults = Append(@, SecretResult(name, out))]
  IN IF Len(d1.secretResults) < Len(d1.secretsToSet)
     THEN IssueCall(d1, "setWorkerSecret",
                    d1.secretsToSet[Len(d1.secretResults) + 1], "secret_wait")
     ELSE Finalize(d1)

\* The overall status the operator reads off a response.
DeployOutcomeStatus(r) ==
  IF r.heading = "**Error**" THEN "FAILURE"
  ELSE IF r.heading = "**Success**" THEN "SUCCESS"
  ELSE "PARTIAL"

(***************************************************************************)
(* Actions of deployMCPServer                                              *)
(***************************************************************************)
DeployMCPServerInvoke(i) ==
  /\ dep[i].pc = "idle"
  /\ \E env \in Envs, args \in DeployArgs :
       dep' = [dep EXCEPT ![i] = DeployStart(env, args)]
  /\ UNCHANGED <<sws, tool, client, server, caller>>

CreateKVNamespaceReturn(i) ==
  /\ dep[i].pc = "kv_wait"
  /\ \E out \in KVOutcomes :
       dep' = [dep EXCEPT ![i] = KvSettle(dep[i], out)]
  /\ UNCHANGED <<sws, tool, client, server, caller>>

\* A variant in which deploymentSteps is one object for all invocations: the
\* handler resumes with the steps the other invocation has written.
DeployWorkerReturn_SharedSteps(i) ==
  /\ dep[i].pc = "deploy_wait"
  /\ \E out \in DeployOutcomes :
       LET other == dep[3 - i]
           steps == IF Len(other.returns) >= 1 THEN other.deploymentSteps
                    ELSE dep[i].deploymentSteps
       IN dep' = [dep EXCEPT ![i] =
                    DeploySettle([dep[i] EXCEPT !.deploymentSteps = steps], out)]
  /\ UNCHANGED <<sws, tool, client, server, caller>>

DeployWorkerReturn(i) ==
  /\ dep[i].pc = "deploy_wait"
  /\ \E out \in DeployOutcomes :
       dep' = [dep EXCEPT ![i] = DeploySettle(dep[i], out)]
  /\ UNCHANGED <<sws, tool, client, server, caller>>

SetWorkerSecretReturn(i) ==
  /\ dep[i].pc = "secret_wait"
  /\ \E out \in SecretOutcomes :
       dep' = [dep EXCEPT ![i] = SecretSettle(dep[i], out)]
  /\ UNCHANGED <<sws, tool, client, server, caller>>

\* A deployMCPServer request reaches the server: the dispatch layer parses
\* the arguments with the registered schema and runs the handler only if
\* they pass.
DeployMCPServerRequest(i) ==
  /\ dep[i].pc = "idle"
  /\ \E env \in Envs, request \in DeployRequests :
       dep' = [dep EXCEPT ![i] =
                 IF DeployMCPServerSchema(request)
                 THEN DeployEnter([DeployIdle EXCEPT !.env = env,
                                                     !.request = request])
                 ELSE [DeployIdle EXCEPT !.env = env,
                                         !.request = request,
                                         !.pc = "done",
                                         !.response = [kind |-> "invalid_params",
                                                       heading |-> Undefined]]]
  /\ UNCHANGED <<sws, tool, client, server, caller>>

\* An invocation whose audit recorder throws on its next calls.
DeployMCPServerInvokeFaulty(i) ==
  /\ dep[i].pc = "idle"
  /\ \E env \in Envs, args \in DeployArgs, faults \in 0..MaxAuditFaults :
       dep' = [dep EXCEPT ![i] = DeployEnter([DeployIdle EXCEPT !.env = env,
                                                                !.args = args,
                                                                !.auditFaults = faults])]
  /\ UNCHANGED <<sws, tool, client, server, caller>>

\* The response has gone to the dispatch layer; everything the invocation
\* held (cfApi, deploymentSteps, secretResults) is local and is dropped.
DeployMCPServerReturn(i) ==
  /\ dep[i].pc = "done"
  /\ dep' = [dep EXCEPT ![i] = DeployIdle]
  /\ UNCHANGED <<sws, tool, client, server, caller>>

(***************************************************************************)
(* setWorkerSecrets                                                        *)
(***************************************************************************)
SecretNames == {"ALPHA", "BETA", "GAMMA"}

\* The secrets argument: a non-empty list (schema: min(1)); a secret is
\* represented by its name.
Batches == UNION {[1..n -> SecretNames] : n \in 1..MaxSecrets}

\* processed is the position in secrets of the secret submitted by this
\* call, prevProcessed the position submitted by the previous call when
\* this call repeats that call's list (0: none).
SwsIdle ==
  [pc |-> "idle",
   env |-> [CLOUDFLARE_ACCOUNT_ID |-> Undefined, CLOUDFLARE_API_TOKEN |-> Undefined],
   secrets |-> <<>>,
   prevProcessed |-> 0,
   processed |-> 0,
   calls |-> <<>>,
   returns |-> <<>>,
   inflight |-> {},
   audit |-> <<>>,
   response |-> NoResponse]

\* From the invocation to the await: the credentials check, then the
\* setWorkerSecret call for firstSecret = secrets[0].
SwsStart(env, secrets, prevProcessed) ==
  LET s0 == [SwsIdle EXCEPT !.env = env, !.secrets = secrets,
                            !.prevProcessed = prevProcessed]
  IN IF ~Truthy(env.CLOUDFLARE_ACCOUNT_ID) \/ ~Truthy(env.CLOUDFLARE_API_TOKEN)
     THEN [s0 EXCEPT
             !.pc = "done",
             !.audit = logDeploymentOperation(@, "set_worker_secrets", FALSE,
                         [error |-> "Missing Cloudflare credentials"]),
             !.response = [kind |-> "config_error",
                           heading |-> "**Error**",
                           title |-> "Cloudflare credentials not configured"]]
     ELSE [IssueCall(s0, "setWorkerSecret", secrets[1], "secret_wait")
             EXCEPT !.processed = 1]

\* A variant that leaves a secret the remote API refused in the pending list.
FirstResult_RetryRejected(firstSecret, out) ==
  IF Succeeded(out)
  THEN [status |-> "fulfilled", secretName |-> firstSecret, reason |-> Undefined]
  ELSE [status |-> "pending", secretName |-> firstSecret, reason |-> Undefined]

\* firstResult
FirstResult(firstSecret, out) ==
  IF Succeeded(out)
  THEN [status |-> "fulfilled", secretName |-> firstSecret, reason |-> Undefined]
  ELSE [status |-> "rejected", secretName |-> firstSecret,
        reason |-> IF out.kind = "throw" THEN out.message
                   ELSE OrElse(FirstErrorMessage(out.errors), "Failed to set secret")]

\* A variant that loses the last secret of the list.
BatchResults_DropLast(secrets, firstResult) ==
  <<firstResult>> \o
  [k \in 1..(Len(secrets) - 2) |->
     [status |-> "pending", secretName |-> secrets[k + 1], reason |-> Undefined]]

\* results: firstResult, then one pending entry per other secret
BatchResults(secrets, firstResult) ==
  <<firstResult>> \o
  [k \in 1..(Len(secrets) - 1) |->
     [status |-> "pending", secretName |-> secrets[k + 1], reason |-> Undefined]]

\* A variant that does not look at the status of an entry.
NamesWithStatus_Any(results, status) ==
  [k \in 1..Len(results) |-> results[k].secretName]

NamesWithStatus(results, status) ==
  LET sel == SelectSeq(results, LAMBDA r : r.status = status)
  IN [k \in 1..Len(sel) |-> sel[k].secretName]

\* status, from the errors and successfulSecrets lists
BatchStatus(errors, successfulSecrets) ==
  IF Len(errors) = 0 THEN "SUCCESS"
  ELSE IF Len(successfulSecrets) = 0 THEN "FAILURE"
  ELSE "PARTIAL"

\* The await resumes: results, the three lists, status, audit, response.
\* An empty failedSecrets or pendingSecrets list stands for the field being
\* left undefined.
SwsSettle(s, out) ==
  LET firstResult == FirstResult(s.secrets[1], out)
      results == BatchResults(s.secrets, firstResult)
      successfulSecrets == NamesWithStatus(results, "fulfilled")
      rejected == SelectSeq(results, LAMBDA r : r.status = "rejected")
      errors == [k \in 1..Len(rejected) |->
                   [secret |-> rejected[k].secretName,
                    error |-> OrElse(rejected[k].reason, "Unknown error")]]
      pending == NamesWithStatus(results, "pending")
      status == BatchStatus(errors, successfulSecrets)
      result == [totalSecrets |-> Len(s.secrets),
                 successfulSecrets |-> successfulSecrets,
                 failedSecrets |-> errors,
                 pendingSecrets |-> pending,
                 status |-> IF Len(pending) > 0 THEN "PARTIAL" ELSE status]
  IN [Receive(s, out) EXCEPT
        !.pc = "done",
        !.audit = logDeploymentOperation(@, "set_worker_secrets", status = "SUCCESS",
                    [successfulSecrets |-> successfulSecrets, errors |-> errors]),
        !.response = [kind |-> "result",
                      heading |-> IF status = "FAILURE" THEN "**Error**"
                                  ELSE IF status = "SUCCESS" THEN "**Success**"
                                  ELSE "**Partial Success**",
                      result |-> result]]

(***************************************************************************)
(* Actions of setWorkerSecrets                                             *)
(***************************************************************************)
\* A call with a list of the caller's choice.
SetWorkerSecretsInvoke(i) ==
  /\ sws[i].pc \in {"idle", "done"}
  /\ \E env \in Envs, secrets \in Batches :
       sws' = [sws EXCEPT ![i] = SwsStart(env, secrets, 0)]
  /\ UNCHANGED <<dep, tool, client, server, caller>>

\* The caller repeats the previous call: same worker, same list.
SetWorkerSecretsReinvoke(i) ==
  /\ sws[i].pc = "done"
  /\ sws' = [sws EXCEPT ![i] = SwsStart(sws[i].env, sws[i].secrets, sws[i].processed)]
  /\ UNCHANGED <<dep, tool, client, server, caller>>

BatchSecretReturn(i) ==
  /\ sws[i].pc = "secret_wait"
  /\ \E out \in SecretOutcomes :
       sws' = [sws EXCEPT ![i] = SwsSettle(sws[i], out)]
  /\ UNCHANGED <<dep, tool, client, server, caller>>

\* The response of a finished call has been delivered.
SetWorkerSecretsReturn(i) ==
  /\ sws[i].pc = "done"
  /\ sws' = [sws EXCEPT ![i] = SwsIdle]
  /\ UNCHANGED <<dep, tool, client, server, caller>>

(***************************************************************************)
(* The resumable protocol of setWorkerSecrets: the caller hands the list   *)
(* reported pending by a response to the next call.  caller holds the list *)
(* the protocol began with, the secrets submitted to the remote API so     *)
(* far and the number of calls made.                                       *)
(***************************************************************************)
NoProtocol == [initial |-> <<>>, submitted |-> <<>>, invocations |-> 0]

\* The names handed to cfApi.setWorkerSecret by the calls of s.
Submitted(s) == [k \in 1..Len(s.calls) |-> s.calls[k].arg]

ResumeBegin(i) ==
  /\ sws[i].pc = "idle"
  /\ caller.invocations = 0
  /\ \E env \in Envs, secrets \in Batches :
       LET s == SwsStart(env, secrets, 0)
       IN /\ sws' = [sws EXCEPT ![i] = s]
          /\ caller' = [initial |-> secrets, submitted |-> Submitted(s),
                        invocations |-> 1]
  /\ UNCHANGED <<dep, tool, client, server>>

\* The next call, with exactly the pending list of the last response.
ResumeAgain(i) ==
  /\ sws[i].pc = "done"
  /\ sws[i].response.kind = "result"
  /\ sws[i].response.result.pendingSecrets /= <<>>
  /\ LET s == SwsStart(sws[i].env, sws[i].response.result.pendingSecrets, 0)
     IN /\ sws' = [sws EXCEPT ![i] = s]
        /\ caller' = [caller EXCEPT !.submitted = @ \o Submitted(s),
                                    !.invocations = @ + 1]
  /\ UNCHANGED <<dep, tool, client, server>>

\* Nothing is pending, or the call ended with a configuration error: the
\* protocol is over.
ResumeEnd(i) ==
  /\ sws[i].pc = "done"
  /\ sws[i].response.kind = "result" => sws[i].response.result.pendingSecrets = <<>>
  /\ sws' = [sws EXCEPT ![i] = SwsIdle]
  /\ caller' = NoProtocol
  /\ UNCHANGED <<dep, tool, client, server>>

(***************************************************************************)
(* The single-call tools: deployWorker, listWorkers, getWorkerStatus,       *)
(* deleteWorker, createKVNamespace, manageDurableObjects, whoami and the    *)
(* database tools.  tool is the one invocation of them that is running.     *)
(***************************************************************************)
ToolEnvs ==
  [CLOUDFLARE_ACCOUNT_ID : {Undefined, "acct"},
   CLOUDFLARE_API_TOKEN : {Undefined, "", "token"},
   SUPABASE_URL : {Undefined, "url"},
   SUPABASE_ANON_KEY : {Undefined, "key"}]

\* accountId && apiToken
HasCloudflareCredentials(env) ==
  Truthy(env.CLOUDFLARE_ACCOUNT_ID) /\ Truthy(env.CLOUDFLARE_API_TOKEN)

\* env.SUPABASE_URL && env.SUPABASE_ANON_KEY
HasSupabase(env) == Truthy(env.SUPABASE_URL) /\ Truthy(env.SUPABASE_ANON_KEY)

\* A SQL text, by what validateSqlQuery and isWriteOperation say of it.
SqlTexts == [valid : BOOLEAN, write : BOOLEAN]

validateSqlQuery(sql) ==
  [isValid |-> sql.valid,
   error |-> IF sql.valid THEN Undefined ELSE "Query contains dangerous patterns"]

isWriteOperation(sql) == sql.write

\* The arguments a tool reads; a tool ignores the ones it does not declare.
NoArgs ==
  [code |-> PlainCode(1), confirm |-> FALSE, sql |-> [valid |-> TRUE, write |-> FALSE],
   className |-> <<>>]

ToolIdle ==
  [tool |-> "none",
   pc |-> "idle",
   env |-> [CLOUDFLARE_ACCOUNT_ID |-> Undefined, CLOUDFLARE_API_TOKEN |-> Undefined,
            SUPABASE_URL |-> Undefined, SUPABASE_ANON_KEY |-> Undefined],
   args |-> NoArgs,
   calls |-> <<>>,
   returns |-> <<>>,
   inflight |-> {},
   audit |-> <<>>,
   response |-> NoResponse]

ToolBegin(name, env, args) ==
  [ToolIdle EXCEPT !.tool = name, !.env = env, !.args = args]

\* return { content: [{ type: "text", text }] }; the text is the heading, a
\* blank line, the title and the rest.
Reply(t, heading, title, rest) ==
  [t EXCEPT !.pc = "done",
            !.response = [kind |-> "text", heading |-> heading,
                          title |-> title, rest |-> rest]]

Logged(t, operation, success, details) ==
  [t EXCEPT !.audit = logDeploymentOperation(@, operation, success, details)]

\* The missing-credentials branch of a handler.
CredentialsError(t, operation, rest) ==
  Reply(Logged(t, operation, FALSE, [error |-> "Missing Cloudflare credentials"]),
        "**Error**", "Cloudflare credentials not configured", rest)

PleaseSet ==
  "Please set CLOUDFLARE_ACCOUNT_ID and CLOUDFLARE_API_TOKEN environment variables."

MissingDetails ==
  "missing: CLOUDFLARE_ACCOUNT_ID and CLOUDFLARE_API_TOKEN environment variables"

\* A variant of the catch block that throws the error on.
ToolCatch_Rethrow(t, operation, title, message) ==
  [t EXCEPT !.pc = "done",
            !.response = [kind |-> "exception", heading |-> Undefined,
                          title |-> Undefined, rest |-> message]]

\* The catch block of a handler: audit the error, answer with it.
ToolCatch(t, operation, title, message) ==
  Reply(Logged(t, operation, FALSE, [error |-> message]), "**Error**", title, message)

NullRead == "Cannot read properties of null"

(***************************************************************************)
(* deployWorker                                                            *)
(***************************************************************************)
\* Code validation, then the credentials check, then the deployWorker call.
DeployWorkerStart(env, args) ==
  LET t == ToolBegin("deployWorker", env, args)
      validation == validateWorkerCode(args.code)
  IN IF ~validation.isValid
     THEN Reply(Logged(t, "deploy", FALSE, [error |-> validation.error]),
                "**Error**", "Code validation failed", validation.error)
     ELSE IF ~HasCloudflareCredentials(env)
     THEN CredentialsError(t, "deploy", PleaseSet)
     ELSE IssueCall(t, "deployWorker", "name", "deploy_wait")

DeployWorkerSettle(t0, out) ==
  LET t == Receive(t0, out)
  IN IF out.kind = "throw"
     THEN ToolCatch(t, "deploy", "Deployment error", out.message)
     ELSE IF ~out.success
     THEN LET error == OrElse(FirstErrorMessage(out.errors), "Unknown deployment error")
          IN Reply(Logged(t, "deploy", FALSE, [error |-> error, cfErrors |-> out.errors]),
                   "**Error**", "Deployment failed", error)
     ELSE Reply(Logged(t, "deploy", TRUE,
                       [codeLength |-> t.args.code.length,
                        workerId |-> IF out.result = Null THEN Undefined
                                     ELSE out.result.id]),
                "**Success**", "Worker deployed successfully", "")

DeployWorkerToolInvoke ==
  /\ tool.pc = "idle"
  /\ \E env \in ToolEnvs, code \in Codes :
       tool' = DeployWorkerStart(env, [NoArgs EXCEPT !.code = code])
  /\ UNCHANGED <<dep, sws, client, server, caller>>

DeployWorkerToolReturn ==
  /\ tool.tool = "deployWorker" /\ tool.pc = "deploy_wait"
  /\ \E out \in DeployOutcomes : tool' = DeployWorkerSettle(tool, out)
  /\ UNCHANGED <<dep, sws, client, server, caller>>

(***************************************************************************)
(* listWorkers                                                             *)
(***************************************************************************)
ListOutcomes ==
  {Envelope(TRUE, <<>>, [type |-> "array", items |-> ws]) : ws \in {<<>>, <<"worker-1">>}}
    \cup {Envelope(TRUE, <<>>, Null)}
    \cup {Envelope(FALSE, errs, Null) : errs \in ErrorLists}
    \cup {Thrown("fetch failed")}

ListWorkersStart(env) ==
  LET t == ToolBegin("listWorkers", env, NoArgs)
  IN IF ~HasCloudflareCredentials(env)
     THEN CredentialsError(t, "list", PleaseSet)
     ELSE IssueCall(t, "listWorkers", "all", "list_wait")

ListWorkersSettle(t0, out) ==
  LET t == Receive(t0, out)
  IN IF out.kind = "throw"
     THEN ToolCatch(t, "list", "Error listing workers", out.message)
     ELSE IF ~out.success
     THEN LET error == OrElse(FirstErrorMessage(out.errors), "Unknown error listing workers")
          IN Reply(Logged(t, "list", FALSE, [error |-> error, cfErrors |-> out.errors]),
                   "**Error**", "Failed to list workers", error)
     ELSE LET workers == IF out.result = Null THEN <<>> ELSE out.result.items
              t1 == Logged(t, "list", TRUE, [workerCount |-> Len(workers)])
          IN IF Len(workers) = 0
             THEN Reply(t1, "**No Workers Found**",
                        "No Cloudflare Workers are currently deployed in your account.", "")
             ELSE Reply(t1, "**Deployed Workers**", "workersInfo", "")

ListWorkersInvoke ==
  /\ tool.pc = "idle"
  /\ \E env \in ToolEnvs : tool' = ListWorkersStart(env)
  /\ UNCHANGED <<dep, sws, client, server, caller>>

ListWorkersReturn ==
  /\ tool.tool = "listWorkers" /\ tool.pc = "list_wait"
  /\ \E out \in ListOutcomes : tool' = ListWorkersSettle(tool, out)
  /\ UNCHANGED <<dep, sws, client, server, caller>>

(***************************************************************************)
(* CloudflareAPI.getWorker: the settings request and, on a 404, the domains *)
(* request; every failure inside is caught and answered with a synthetic   *)
(* success, so the method never throws.                                    *)
(***************************************************************************)
WorkerErrorLists ==
  {<<>>,
   <<[code |-> 10007, message |-> "This Worker does not exist"]>>,
   <<[code |-> 10000, message |-> "Authentication error"]>>}

\* A body of kind text is one that response.json() cannot parse.
\* The worker object of a successful answer; source tells which of the three
\* return statements built it.
WorkerInfo(source) == [type |-> "object", id |-> "name", source |-> source]

SettingsResponses ==
  {[kind |-> "network_error"]}
    \cup {[kind |-> "http", status |-> 404, body |-> Null, domains |-> dm] :
            dm \in {"json", "network_error"}}
    \cup {[kind |-> "http", status |-> 200, body |-> b, domains |-> "unused"] :
            b \in {[kind |-> "text"],
                   Envelope(TRUE, <<>>, [type |-> "object", id |-> "settings"]),
                   Envelope(TRUE, <<>>, Null)}}
    \cup {[kind |-> "http", status |-> 403, body |-> Envelope(FALSE, errs, Null),
           domains |-> "unused"] : errs \in WorkerErrorLists}

getWorker(response) ==
  IF response.kind = "network_error"
  THEN Envelope(TRUE, <<>>, WorkerInfo("catch"))
  ELSE IF response.status = 404
  THEN IF response.domains = "json"
       THEN Envelope(TRUE, <<>>, WorkerInfo("domains"))
       ELSE Envelope(TRUE, <<>>, WorkerInfo("catch"))
  ELSE IF response.body.kind = "text"
  THEN Envelope(TRUE, <<>>, WorkerInfo("catch"))
  ELSE IF response.body.success /\ response.body.result /= Null
  THEN Envelope(TRUE, <<>>, WorkerInfo("settings"))
  ELSE response.body

GetWorkerOutcomes == {getWorker(response) : response \in SettingsResponses}

(***************************************************************************)
(* CloudflareAPI at the level of fetch: one method call of the client, the *)
(* fetch calls it issues and the value it returns or throws.               *)
(***************************************************************************)
ClientMethods ==
  {"listWorkers", "deployWorker", "getWorker", "deleteWorker", "getWorkerLogs",
   "setWorkerSecret", "createKVNamespace"}

\* The first request of every method.
Endpoint(method) ==
  CASE method = "listWorkers" -> [verb |-> "GET", path |-> "scripts"]
    [] method = "deployWorker" -> [verb |-> "PUT", path |-> "scripts/name"]
    [] method = "getWorker" -> [verb |-> "GET", path |-> "scripts/name/settings"]
    [] method = "deleteWorker" -> [verb |-> "DELETE", path |-> "scripts/name"]
    [] method = "getWorkerLogs" -> [verb |-> "GET", path |-> "scripts/name"]
    [] method = "setWorkerSecret" -> [verb |-> "PUT", path |-> "scripts/name/secrets"]
    [] method = "createKVNamespace" -> [verb |-> "POST", path |-> "storage/kv/namespaces"]

\* What a fetch can give: a rejection, or a response whose body is JSON or
\* text that response.json() cannot parse.
HttpBodies ==
  {[kind |-> "text"],
   Envelope(TRUE, <<>>, [type |-> "object", id |-> "settings"]),
   Envelope(TRUE, <<>>, Null),
   Envelope(FALSE, <<[code |-> 10007, message |-> "This Worker does not exist"]>>, Null)}

HttpResponses ==
  {[kind |-> "network_error"]}
    \cup {[kind |-> "http", status |-> st, body |-> b] :
            st \in {200, 403, 404}, b \in HttpBodies}

NoResult == [kind |-> "none"]

ClientIdle ==
  [method |-> "none", pc |-> "idle", fetches |-> <<>>, responses |-> <<>>,
   result |-> NoResult]

ClientStart(method) ==
  [ClientIdle EXCEPT !.method = method, !.pc = "wait",
                     !.fetches = <<Endpoint(method)>>]

ClientFinish(c, result) == [c EXCEPT !.pc = "done", !.result = result]

\* A variant that sends the request once more when the fetch rejects.
makeRequest_Retry(c0, response) ==
  LET c == [c0 EXCEPT !.responses = Append(@, response)]
  IN IF response.kind = "network_error"
     THEN IF Len(c.fetches) < 2
          THEN [c EXCEPT !.fetches = Append(@, c.fetches[1])]
          ELSE ClientFinish(c, Thrown("fetch failed"))
     ELSE IF response.body.kind = "text"
     THEN ClientFinish(c, Thrown("Unexpected token"))
     ELSE ClientFinish(c, response.body)

\* const response = await fetch(url, requestInit);
\* return await response.json();
\* deployWorker and createKVNamespace build their own request and end with
\* the same two statements.
makeRequest(c0, response) ==
  LET c == [c0 EXCEPT !.responses = Append(@, response)]
  IN IF response.kind = "network_error"
     THEN ClientFinish(c, Thrown("fetch failed"))
     ELSE IF response.body.kind = "text"
     THEN ClientFinish(c, Thrown("Unexpected token"))
     ELSE ClientFinish(c, response.body)

\* getWorker, answer by answer: a 404 of the settings endpoint is followed by
\* a request to the domains endpoint; the value returned is getWorker of the
\* settings answer together with the fate of the domains request.
GetWorkerReceive(c0, response) ==
  LET c == [c0 EXCEPT !.responses = Append(@, response)]
      parsed == response.kind = "http" /\ response.body.kind /= "text"
  IN IF Len(c0.responses) = 0
     THEN IF response.kind = "http" /\ response.status = 404
          THEN [c EXCEPT !.fetches =
                           Append(@, [verb |-> "GET", path |-> "domains"])]
          ELSE ClientFinish(c, getWorker(response))
     ELSE ClientFinish(c,
            getWorker([kind |-> "http", status |-> 404, body |-> Null,
                       domains |-> IF parsed THEN "json" ELSE "network_error"]))

ClientInvoke ==
  /\ client.pc = "idle"
  /\ \E method \in ClientMethods : client' = ClientStart(method)
  /\ UNCHANGED <<dep, sws, tool, server, caller>>

ClientFetchReturn ==
  /\ client.pc = "wait"
  /\ \E response \in HttpResponses :
       client' = IF client.method = "getWorker"
                 THEN GetWorkerReceive(client, response)
                 ELSE makeRequest(client, response)
  /\ UNCHANGED <<dep, sws, tool, server, caller>>

ClientReturn ==
  /\ client.pc = "done"
  /\ client' = ClientIdle
  /\ UNCHANGED <<dep, sws, tool, server, caller>>

(***************************************************************************)
(* getWorkerStatus                                                         *)
(***************************************************************************)
GetWorkerStatusStart(env) ==
  LET t == ToolBegin("getWorkerStatus", env, NoArgs)
  IN IF ~HasCloudflareCredentials(env)
     THEN CredentialsError(t, "status", PleaseSet)
     ELSE IssueCall(t, "getWorker", "name", "status_wait")

GetWorkerStatusSettle(t0, out) ==
  LET t == Receive(t0, out)
  IN IF ~out.success
     THEN LET error == OrElse(IF Len(out.errors) > 0 THEN out.errors[1].message
                              ELSE Undefined, "Worker not found")
              t1 == Logged(t, "status", FALSE, [error |-> error, cfErrors |-> out.errors])
          IN IF Len(out.errors) > 0 /\ out.errors[1].code = 10007
             THEN Reply(t1, "**Error**", "Worker not found", "")
             ELSE Reply(t1, "**Error**", "Failed to get worker status", error)
     ELSE LET t1 == Logged(t, "status", TRUE,
                           [workerId |-> IF out.result = Null THEN Undefined
                                         ELSE out.result.id])
          IN IF out.result = Null
             THEN ToolCatch(t1, "status", "Error checking worker status", NullRead)
             ELSE Reply(t1, "**Worker Status**", "statusInfo", "")

GetWorkerStatusInvoke ==
  /\ tool.pc = "idle"
  /\ \E env \in ToolEnvs : tool' = GetWorkerStatusStart(env)
  /\ UNCHANGED <<dep, sws, client, server, caller>>

GetWorkerStatusReturn ==
  /\ tool.tool = "getWorkerStatus" /\ tool.pc = "status_wait"
  /\ \E out \in GetWorkerOutcomes : tool' = GetWorkerStatusSettle(tool, out)
  /\ UNCHANGED <<dep, sws, client, server, caller>>

(***************************************************************************)
(* deleteWorker                                                            *)
(***************************************************************************)
DeleteOutcomes ==
  {Envelope(TRUE, <<>>, Null)}
    \cup {Envelope(FALSE, errs, Null) : errs \in ErrorLists}
    \cup {Thrown("fetch failed")}

\* The confirmation check, then the credentials check, then getWorker.
DeleteWorkerStart(env, args) ==
  LET t == ToolBegin("deleteWorker", env, args)
  IN IF ~args.confirm
     THEN Reply(t, "**Error**", "Deletion requires explicit confirmation", "")
     ELSE IF ~HasCloudflareCredentials(env)
     THEN CredentialsError(t, "delete", PleaseSet)
     ELSE IssueCall(t, "getWorker", "name", "check_wait")

\* A variant that deletes whatever the existence check said.
DeleteWorkerCheckSettle_DeleteAnyway(t0, checkResult) ==
  IssueCall(Receive(t0, checkResult), "deleteWorker", "name", "delete_wait")

DeleteWorkerCheckSettle(t0, checkResult) ==
  LET t == Receive(t0, checkResult)
  IN IF ~checkResult.success
     THEN Reply(Logged(t, "delete", FALSE, [error |-> "Worker not found"]),
                "**Error**", "Worker not found", "")
     ELSE IssueCall(t, "deleteWorker", "name", "delete_wait")

DeleteWorkerSettle(t0, deleteResult) ==
  LET t == Receive(t0, deleteResult)
      worker == t.returns[1].result
  IN IF deleteResult.kind = "throw"
     THEN ToolCatch(t, "delete", "Error deleting worker", deleteResult.message)
     ELSE IF ~deleteResult.success
     THEN LET error == OrElse(FirstErrorMessage(deleteResult.errors),
                              "Unknown deletion error")
          IN Reply(Logged(t, "delete", FALSE,
                          [error |-> error, cfErrors |-> deleteResult.errors]),
                   "**Error**", "Failed to delete worker", error)
     ELSE IF worker = Null
     THEN ToolCatch(t, "delete", "Error deleting worker", NullRead)
     ELSE Reply(Logged(t, "delete", TRUE, [workerId |-> worker.id]),
                "**Success**", "Worker has been permanently deleted", "")

DeleteWorkerInvoke ==
  /\ tool.pc = "idle"
  /\ \E env \in ToolEnvs, confirm \in BOOLEAN :
       tool' = DeleteWorkerStart(env, [NoArgs EXCEPT !.confirm = confirm])
  /\ UNCHANGED <<dep, sws, client, server, caller>>

DeleteWorkerCheckReturn ==
  /\ tool.tool = "deleteWorker" /\ tool.pc = "check_wait"
  /\ \E out \in GetWorkerOutcomes : tool' = DeleteWorkerCheckSettle(tool, out)
  /\ UNCHANGED <<dep, sws, client, server, caller>>

DeleteWorkerDeleteReturn ==
  /\ tool.tool = "deleteWorker" /\ tool.pc = "delete_wait"
  /\ \E out \in DeleteOutcomes : tool' = DeleteWorkerSettle(tool, out)
  /\ UNCHANGED <<dep, sws, client, server, caller>>

(***************************************************************************)
(* createKVNamespace and manageDurableObjects; both end with an optional    *)
(* insert into the infrastructure_audit table whose failure is not fatal.   *)
(* With Supabase configured the handler first suspends at                  *)
(* await import('@supabase/supabase-js'), with its audit entry written and  *)
(* no call in flight; the insert is issued when the import has resolved.    *)
(***************************************************************************)
InsertOutcomes == {[kind |-> "settled"], Thrown("insert failed")}

\* The handler suspends at the dynamic import.
AwaitSupabaseImport(t) == [t EXCEPT !.pc = "import_wait"]

\* The import resolved: createClient, then the insert call.
AuditInsertStart(t) == IssueCall(t, "insert", "infrastructure_audit", "insert_wait")

CreateKVStart(env) ==
  LET t == ToolBegin("createKVNamespace", env, NoArgs)
  IN IF ~HasCloudflareCredentials(env)
     THEN CredentialsError(t, "create_kv_namespace", MissingDetails)
     ELSE IssueCall(t, "fetch", "storage/kv/namespaces", "kv_wait")

\* data is what response.json() gave; reading data.result.id of a null
\* result throws before the audit call is made.
CreateKVSettle(t0, data) ==
  LET t == Receive(t0, data)
  IN IF data.kind = "throw"
     THEN ToolCatch(t, "create_kv_namespace",
                    "Unexpected error creating KV namespace", data.message)
     ELSE IF ~data.success
     THEN LET error == OrElse(FirstErrorMessage(data.errors),
                              "Unknown error creating KV namespace")
          IN Reply(Logged(t, "create_kv_namespace", FALSE,
                          [error |-> error, cfErrors |-> data.errors]),
                   "**Error**", "Failed to create KV namespace", error)
     ELSE IF data.result = Null
     THEN ToolCatch(t, "create_kv_namespace",
                    "Unexpected error creating KV namespace", NullRead)
     ELSE LET t1 == Logged(t, "create_kv_namespace", TRUE,
                           [namespaceId |-> data.result.id])
          IN IF HasSupabase(t.env)
             THEN AwaitSupabaseImport(t1)
             ELSE Reply(t1, "**Success**", "KV namespace created successfully", "")

\* Class names that pass /^[A-Z][a-zA-Z0-9]*$/.
ClassNames == {<<"M">>, <<"M", "y">>, <<"Z", "a">>, <<"M", "7">>, <<"M", "Z">>}

Alphabet ==
  <<"a", "b", "c", "d", "e", "f", "g", "h", "i", "j", "k", "l", "m",
    "n", "o", "p", "q", "r", "s", "t", "u", "v", "w", "x", "y", "z">>

CapitalAlphabet ==
  <<"A", "B", "C", "D", "E", "F", "G", "H", "I", "J", "K", "L", "M",
    "N", "O", "P", "Q", "R", "S", "T", "U", "V", "W", "X", "Y", "Z">>

\* String.prototype.toUpperCase on the characters a class name can hold.
toUpperCase(str) ==
  [k \in 1..Len(str) |->
     IF str[k] \in LowerCaseLetters
     THEN CapitalAlphabet[CHOOSE n \in 1..26 : Alphabet[n] = str[k]]
     ELSE str[k]]

\* A variant that keeps the class name as given.
BindingName_AsGiven(className) == Append(className, "_OBJECT")

\* `${className.toUpperCase()}_OBJECT`: the characters of the upper-cased
\* class name, then the suffix.
BindingName(className) == Append(toUpperCase(className), "_OBJECT")

\* The text response of manageDurableObjects with its finalResult.
DurableObjectReply(t) ==
  [t EXCEPT !.pc = "done",
            !.response = [kind |-> "text", heading |-> "**Success**",
                          title |-> "Durable Object configured", rest |-> "",
                          result |-> [configured |-> TRUE,
                                      className |-> t.args.className,
                                      bindingName |-> BindingName(t.args.className)]]]

ManageDurableObjectsStart(env, args) ==
  LET t == ToolBegin("manageDurableObjects", env, args)
  IN IF ~HasCloudflareCredentials(env)
     THEN CredentialsError(t, "manage_durable_objects", MissingDetails)
     ELSE LET t1 == Logged(t, "manage_durable_objects", TRUE,
                           [className |-> args.className,
                            bindingName |-> BindingName(args.className)])
          IN IF HasSupabase(env)
             THEN AwaitSupabaseImport(t1)
             ELSE DurableObjectReply(t1)

\* The insert settled or threw: the inner catch only logs.
InsertSettle(t0, out) ==
  LET t == Receive(t0, out)
  IN IF t.tool = "createKVNamespace"
     THEN Reply(t, "**Success**", "KV namespace created successfully", "")
     ELSE DurableObjectReply(t)

CreateKVNamespaceInvoke ==
  /\ tool.pc = "idle"
  /\ \E env \in ToolEnvs : tool' = CreateKVStart(env)
  /\ UNCHANGED <<dep, sws, client, server, caller>>

CreateKVNamespaceFetchReturn ==
  /\ tool.tool = "createKVNamespace" /\ tool.pc = "kv_wait"
  /\ \E data \in KVOutcomes : tool' = CreateKVSettle(tool, data)
  /\ UNCHANGED <<dep, sws, client, server, caller>>

ManageDurableObjectsInvoke ==
  /\ tool.pc = "idle"
  /\ \E env \in ToolEnvs, className \in ClassNames :
       tool' = ManageDurableObjectsStart(env, [NoArgs EXCEPT !.className = className])
  /\ UNCHANGED <<dep, sws, client, server, caller>>

SupabaseImportReturn ==
  /\ tool.pc = "import_wait"
  /\ tool' = AuditInsertStart(tool)
  /\ UNCHANGED <<dep, sws, client, server, caller>>

AuditInsertReturn ==
  /\ tool.pc = "insert_wait"
  /\ \E out \in InsertOutcomes : tool' = InsertSettle(tool, out)
  /\ UNCHANGED <<dep, sws, client, server, caller>>

(***************************************************************************)
(* whoami                                                                  *)
(***************************************************************************)
WhoamiInvoke ==
  /\ tool.pc = "idle"
  /\ \E env \in ToolEnvs :
       tool' = Reply(ToolBegin("whoami", env, NoArgs),
                     "**Current User Information**", "props", "")
  /\ UNCHANGED <<dep, sws, client, server, caller>>

(***************************************************************************)
(* listTables, queryDatabase, executeDatabase                              *)
(***************************************************************************)
\* What supabase.rpc resolves to ({data, error}), or a rejected promise.
RpcOutcomes ==
  {[kind |-> "rpc", data |-> d, error |-> Null] :
     d \in {[type |-> "array", items |-> <<"row">>], [type |-> "object"], Null}}
    \cup {[kind |-> "rpc", data |-> Null,
           error |-> [type |-> ty, message |-> "permission denied"]] :
            ty \in {"object", "Error"}}
    \cup {Thrown("Database connection failed")}

\* missing.join(', ')
MissingSupabase(env) ==
  (IF ~Truthy(env.SUPABASE_URL) THEN <<"SUPABASE_URL">> ELSE <<>>)
    \o (IF ~Truthy(env.SUPABASE_ANON_KEY) THEN <<"SUPABASE_ANON_KEY">> ELSE <<>>)

SupabaseMissing(t) ==
  Reply(t, "**Error**", "Supabase configuration missing", MissingSupabase(t.env))

\* JSON.stringify of a plain object whose only property is message.
JSONstringify(error) == "{\"message\":\"" \o error.message \o "\"}"

\* The catch block of a database tool; a rejected rpc and a returned error
\* object both arrive here.  errorMessage is error.message for an Error
\* instance (a rejected rpc rejects with one) and JSON.stringify(error) for
\* the plain error object that supabase.rpc resolves to.
DatabaseCatch(t, title, out) ==
  Reply(t, "**Error**", title,
        IF out.kind = "throw" THEN out.message
        ELSE IF out.error.type = "Error" THEN out.error.message
        ELSE JSONstringify(out.error))

RpcFailed(out) == out.kind = "throw" \/ out.error /= Null

ListTablesStart(env) ==
  LET t == ToolBegin("listTables", env, NoArgs)
  IN IF ~HasSupabase(env) THEN SupabaseMissing(t)
     ELSE IssueCall(t, "rpc", "get_table_columns", "tables_wait")

ListTablesSettle(t0, out) ==
  LET t == Receive(t0, out)
  IN IF RpcFailed(out)
     THEN DatabaseCatch(t, "Error retrieving database schema", out)
     ELSE IF out.data = Null \/ out.data.type /= "array"
     THEN Reply(t, "**Error**",
                "No table information available or unexpected response format.", "")
     ELSE Reply(t, "**Database Tables and Schema**", "tableInfo", "")

\* A variant without the write check.
QueryDatabaseStart_NoWriteCheck(env, args) ==
  LET t == ToolBegin("queryDatabase", env, args)
      validation == validateSqlQuery(args.sql)
  IN IF ~validation.isValid
     THEN Reply(t, "**Error**", "Invalid SQL query", validation.error)
     ELSE IF ~HasSupabase(env) THEN SupabaseMissing(t)
     ELSE IssueCall(t, "rpc", "execute_sql", "query_wait")

QueryDatabaseStart(env, args) ==
  LET t == ToolBegin("queryDatabase", env, args)
      validation == validateSqlQuery(args.sql)
  IN IF ~validation.isValid
     THEN Reply(t, "**Error**", "Invalid SQL query", validation.error)
     ELSE IF isWriteOperation(args.sql)
     THEN Reply(t, "**Error**", "Write operations are not allowed with this tool.", "")
     ELSE IF ~HasSupabase(env) THEN SupabaseMissing(t)
     ELSE IssueCall(t, "rpc", "execute_sql", "query_wait")

QueryDatabaseSettle(t0, out) ==
  LET t == Receive(t0, out)
  IN IF RpcFailed(out) THEN DatabaseCatch(t, "Database query error", out)
     ELSE Reply(t, "**Query Results**", "results", "")

ExecuteDatabaseStart(env, args) ==
  LET t == ToolBegin("executeDatabase", env, args)
      validation == validateSqlQuery(args.sql)
  IN IF ~validation.isValid
     THEN Reply(t, "**Error**", "Invalid SQL statement", validation.error)
     ELSE IF ~HasSupabase(env) THEN SupabaseMissing(t)
     ELSE IssueCall(t, "rpc", "execute_sql", "execute_wait")

ExecuteDatabaseSettle(t0, out) ==
  LET t == Receive(t0, out)
  IN IF RpcFailed(out) THEN DatabaseCatch(t, "Database execution error", out)
     ELSE IF isWriteOperation(t.args.sql)
     THEN Reply(t, "**Write Operation Executed Successfully**", "results", "")
     ELSE Reply(t, "**Read Operation Executed Successfully**", "results", "")

ListTablesInvoke ==
  /\ tool.pc = "idle"
  /\ \E env \in ToolEnvs : tool' = ListTablesStart(env)
  /\ UNCHANGED <<dep, sws, client, server, caller>>

ListTablesReturn ==
  /\ tool.tool = "listTables" /\ tool.pc = "tables_wait"
  /\ \E out \in RpcOutcomes : tool' = ListTablesSettle(tool, out)
  /\ UNCHANGED <<dep, sws, client, server, caller>>

QueryDatabaseInvoke ==
  /\ tool.pc = "idle"
  /\ \E env \in ToolEnvs, sql \in SqlTexts :
       tool' = QueryDatabaseStart(env, [NoArgs EXCEPT !.sql = sql])
  /\ UNCHANGED <<dep, sws, client, server, caller>>

QueryDatabaseReturn ==
  /\ tool.tool = "queryDatabase" /\ tool.pc = "query_wait"
  /\ \E out \in RpcOutcomes : tool' = QueryDatabaseSettle(tool, out)
  /\ UNCHANGED <<dep, sws, client, server, caller>>

ExecuteDatabaseInvoke ==
  /\ tool.pc = "idle"
  /\ \E env \in ToolEnvs, sql \in SqlTexts :
       tool' = ExecuteDatabaseStart(env, [NoArgs EXCEPT !.sql = sql])
  /\ UNCHANGED <<dep, sws, client, server, caller>>

ExecuteDatabaseReturn ==
  /\ tool.tool = "executeDatabase" /\ tool.pc = "execute_wait"
  /\ \E out \in RpcOutcomes : tool' = ExecuteDatabaseSettle(tool, out)
  /\ UNCHANGED <<dep, sws, client, server, caller>>

\* The response has gone to the dispatch layer; the invocation is over.
ToolResponseSent ==
  /\ tool.pc = "done"
  /\ tool' = ToolIdle
  /\ UNCHANGED <<dep, sws, client, server, caller>>

(***************************************************************************)
(* Tool registration: what server.tool is called with, in order, when the  *)
(* tools are registered for a session.                                     *)
(***************************************************************************)
DEPLOYMENT_USERS == {"aboundTechOlogy"}

INFRASTRUCTURE_ADMINS == {"aboundTechOlogy"}

DATABASE_WRITE_USERS == {"aboundTechOlogy"}

ALLOWED_USERNAMES == {"coleam00", "aboundTechOlogy"}

\* props.login; Set.has compares the string as it is.
Logins == {"aboundTechOlogy", "coleam00", "guest", "aboundtechology", ""}

PropsSet == [login : Logins, accessToken : {Undefined, "gho_token"}]

registerWhoami(tools, env, props) == Append(tools, "whoami")

registerListTables(tools, env, props) == Append(tools, "listTables")

registerQueryDatabase(tools, env, props) == Append(tools, "queryDatabase")

registerExecuteDatabase(tools, env, props) ==
  IF props.login \in DATABASE_WRITE_USERS THEN Append(tools, "executeDatabase")
  ELSE tools

\* A variant that registers the tool for every login.
registerDeployWorker_Ungated(tools, env, props) == Append(tools, "deployWorker")

registerDeployWorker(tools, env, props) ==
  IF props.login \in DEPLOYMENT_USERS THEN Append(tools, "deployWorker") ELSE tools

registerListWorkers(tools, env, props) ==
  IF props.login \in DEPLOYMENT_USERS THEN Append(tools, "listWorkers") ELSE tools

registerGetWorkerStatus(tools, env, props) ==
  IF props.login \in DEPLOYMENT_USERS THEN Append(tools, "getWorkerStatus") ELSE tools

registerDeleteWorker(tools, env, props) ==
  IF props.login \in DEPLOYMENT_USERS THEN Append(tools, "deleteWorker") ELSE tools

registerCreateKVNamespace(tools, env, props) ==
  IF props.login \in INFRASTRUCTURE_ADMINS THEN Append(tools, "createKVNamespace")
  ELSE tools

registerManageDurableObjects(tools, env, props) ==
  IF props.login \in INFRASTRUCTURE_ADMINS THEN Append(tools, "manageDurableObjects")
  ELSE tools

registerSetWorkerSecrets(tools, env, props) ==
  IF props.login \in INFRASTRUCTURE_ADMINS THEN Append(tools, "setWorkerSecrets")
  ELSE tools

registerDeployMCPServer(tools, env, props) ==
  IF props.login \in INFRASTRUCTURE_ADMINS THEN Append(tools, "deployMCPServer")
  ELSE tools

registerAllTools(tools, env, props) ==
  LET t1 == registerWhoami(tools, env, props)
      t2 == registerListTables(t1, env, props)
      t3 == registerQueryDatabase(t2, env, props)
      t4 == registerExecuteDatabase(t3, env, props)
      t5 == registerDeployWorker(t4, env, props)
      t6 == registerListWorkers(t5, env, props)
      t7 == registerGetWorkerStatus(t6, env, props)
      t8 == registerDeleteWorker(t7, env, props)
      t9 == registerCreateKVNamespace(t8, env, props)
      t10 == registerManageDurableObjects(t9, env, props)
      t11 == registerSetWorkerSecrets(t10, env, props)
  IN registerDeployMCPServer(t11, env, props)

\* database-tools.ts: the three database tools in one function, with its own
\* allowlist for executeDatabase.
registerDatabaseTools(tools, env, props) ==
  LET t2 == tools \o <<"listTables", "queryDatabase">>
  IN IF props.login \in ALLOWED_USERNAMES THEN Append(t2, "executeDatabase") ELSE t2

\* new McpServer(...): nothing registered.
NewServer ==
  [pc |-> "new", entry |-> "none",
   env |-> [CLOUDFLARE_ACCOUNT_ID |-> Undefined, CLOUDFLARE_API_TOKEN |-> Undefined,
            SUPABASE_URL |-> Undefined, SUPABASE_ANON_KEY |-> Undefined],
   props |-> [login |-> "", accessToken |-> Undefined],
   tools |-> <<>>]

RegisterAllToolsCall ==
  /\ server.pc = "new"
  /\ \E env \in ToolEnvs, props \in PropsSet :
       server' = [pc |-> "registered", entry |-> "registerAllTools",
                  env |-> env, props |-> props,
                  tools |-> registerAllTools(server.tools, env, props)]
  /\ UNCHANGED <<dep, sws, tool, client, caller>>

RegisterDatabaseToolsCall ==
  /\ server.pc = "new"
  /\ \E env \in ToolEnvs, props \in PropsSet :
       server' = [pc |-> "registered", entry |-> "registerDatabaseTools",
                  env |-> env, props |-> props,
                  tools |-> registerDatabaseTools(server.tools, env, props)]
  /\ UNCHANGED <<dep, sws, tool, client, caller>>

\* The session ends; the next one gets a server of its own.
SessionEnd ==
  /\ server.pc = "registered"
  /\ server' = NewServer
  /\ UNCHANGED <<dep, sws, tool, client, caller>>

(***************************************************************************)
(* Specifications                                                          *)
(***************************************************************************)
Init ==
  /\ dep = [i \in Invocations |-> DeployIdle]
  /\ sws = [i \in Invocations |-> SwsIdle]
  /\ tool = ToolIdle
  /\ client = ClientIdle
  /\ server = NewServer
  /\ caller = NoProtocol

\* One deployMCPServer handler, invoked again and again.
DeployNext ==
  \/ DeployMCPServerInvoke(1)
  \/ CreateKVNamespaceReturn(1)
  \/ DeployWorkerReturn(1)
  \/ SetWorkerSecretReturn(1)
  \/ DeployMCPServerReturn(1)

DeploySpec == Init /\ [][DeployNext]_vars

\* deployMCPServer behind the schema check of the dispatch layer.
RequestNext ==
  \/ DeployMCPServerRequest(1)
  \/ CreateKVNamespaceReturn(1)
  \/ DeployWorkerReturn(1)
  \/ SetWorkerSecretReturn(1)
  \/ DeployMCPServerReturn(1)

RequestSpec == Init /\ [][RequestNext]_vars

\* deployMCPServer with an audit recorder that may throw.
AuditFaultNext ==
  \/ DeployMCPServerInvokeFaulty(1)
  \/ CreateKVNamespaceReturn(1)
  \/ DeployWorkerReturn(1)
  \/ SetWorkerSecretReturn(1)
  \/ DeployMCPServerReturn(1)

AuditFaultSpec == Init /\ [][AuditFaultNext]_vars

\* The single-call tools, one invocation at a time.
ToolsNext ==
  \/ DeployWorkerToolInvoke
  \/ DeployWorkerToolReturn
  \/ ListWorkersInvoke
  \/ ListWorkersReturn
  \/ GetWorkerStatusInvoke
  \/ GetWorkerStatusReturn
  \/ DeleteWorkerInvoke
  \/ DeleteWorkerCheckReturn
  \/ DeleteWorkerDeleteReturn
  \/ CreateKVNamespaceInvoke
  \/ CreateKVNamespaceFetchReturn
  \/ ManageDurableObjectsInvoke
  \/ SupabaseImportReturn
  \/ AuditInsertReturn
  \/ WhoamiInvoke
  \/ ListTablesInvoke
  \/ ListTablesReturn
  \/ QueryDatabaseInvoke
  \/ QueryDatabaseReturn
  \/ ExecuteDatabaseInvoke
  \/ ExecuteDatabaseReturn
  \/ ToolResponseSent

ToolsSpec == Init /\ [][ToolsNext]_vars

\* Every tool of the server.  The handlers share no state, so they are run
\* one invocation after the other.
Quiet == dep[1].pc = "idle" /\ sws[1].pc = "idle" /\ tool.pc = "idle"

ServerNext ==
  \/ (Quiet /\ DeployMCPServerInvoke(1))
  \/ CreateKVNamespaceReturn(1)
  \/ DeployWorkerReturn(1)
  \/ SetWorkerSecretReturn(1)
  \/ DeployMCPServerReturn(1)
  \/ (Quiet /\ SetWorkerSecretsInvoke(1))
  \/ BatchSecretReturn(1)
  \/ (Quiet /\ DeployWorkerToolInvoke)
  \/ DeployWorkerToolReturn
  \/ (Quiet /\ ListWorkersInvoke)
  \/ ListWorkersReturn
  \/ (Quiet /\ GetWorkerStatusInvoke)
  \/ GetWorkerStatusReturn
  \/ (Quiet /\ DeleteWorkerInvoke)
  \/ DeleteWorkerCheckReturn
  \/ DeleteWorkerDeleteReturn
  \/ (Quiet /\ CreateKVNamespaceInvoke)
  \/ CreateKVNamespaceFetchReturn
  \/ (Quiet /\ ManageDurableObjectsInvoke)
  \/ SupabaseImportReturn
  \/ AuditInsertReturn
  \/ (Quiet /\ WhoamiInvoke)
  \/ (Quiet /\ ListTablesInvoke)
  \/ ListTablesReturn
  \/ (Quiet /\ QueryDatabaseInvoke)
  \/ QueryDatabaseReturn
  \/ (Quiet /\ ExecuteDatabaseInvoke)
  \/ ExecuteDatabaseReturn
  \/ ToolResponseSent

ServerSpec == Init /\ [][ServerNext]_vars

\* One session after another, each registering its tools on a new server.
RegisterNext ==
  \/ RegisterAllToolsCall
  \/ RegisterDatabaseToolsCall
  \/ SessionEnd

RegisterSpec == Init /\ [][RegisterNext]_vars

\* Two invocations of deployMCPServer, or two of setWorkerSecrets, running at
\* once: each is suspended at its remote call while the other goes on.  The
\* requests are the ones without optional secrets and with short lists.
ConcurrentBatches == {<<"ALPHA">>, <<"ALPHA", "BETA">>, <<"BETA", "ALPHA">>}

NoDeployRunning == \A i \in Invocations : dep[i].pc = "idle"

NoSecretsRunning == \A i \in Invocations : sws[i].pc = "idle"

ConcurrentNext ==
  \E i \in Invocations :
    \/ /\ NoSecretsRunning
       /\ DeployMCPServerInvoke(i)
       /\ dep'[i].args = DeployIdle.args
    \/ CreateKVNamespaceReturn(i)
    \/ DeployWorkerReturn(i)
    \/ SetWorkerSecretReturn(i)
    \/ DeployMCPServerReturn(i)
    \/ /\ NoDeployRunning
       /\ SetWorkerSecretsInvoke(i)
       /\ sws'[i].secrets \in ConcurrentBatches
    \/ BatchSecretReturn(i)

ConcurrentSpec == Init /\ [][ConcurrentNext]_vars

\* One method call of the CloudflareAPI client after another.
ClientNext ==
  \/ ClientInvoke
  \/ ClientFetchReturn
  \/ ClientReturn

ClientSpec == Init /\ [][ClientNext]_vars

\* One setWorkerSecrets handler, invoked again and again.
SecretsNext ==
  \/ SetWorkerSecretsInvoke(1)
  \/ SetWorkerSecretsReinvoke(1)
  \/ BatchSecretReturn(1)

SecretsSpec == Init /\ [][SecretsNext]_vars

\* A caller that picks one list and keeps repeating the call with it; every
\* remote call returns or throws, and the caller never gives up.
SecretsRepeatNext ==
  \/ (sws[1].pc = "idle" /\ SetWorkerSecretsInvoke(1))
  \/ SetWorkerSecretsReinvoke(1)
  \/ BatchSecretReturn(1)

SecretsRepeatSpec ==
  /\ Init
  /\ [][SecretsRepeatNext]_vars
  /\ WF_vars(SetWorkerSecretsReinvoke(1))
  /\ WF_vars(BatchSecretReturn(1))

\* Both multi-step handlers, one invocation at a time, with a remote API
\* whose every call eventually returns or throws.
TerminationNext ==
  \/ (sws[1].pc = "idle" /\ DeployMCPServerInvoke(1))
  \/ CreateKVNamespaceReturn(1)
  \/ DeployWorkerReturn(1)
  \/ SetWorkerSecretReturn(1)
  \/ DeployMCPServerReturn(1)
  \/ (dep[1].pc = "idle" /\ sws[1].pc = "idle" /\ SetWorkerSecretsInvoke(1))
  \/ BatchSecretReturn(1)
  \/ SetWorkerSecretsReturn(1)

TerminationSpec ==
  /\ Init
  /\ [][TerminationNext]_vars
  /\ WF_vars(CreateKVNamespaceReturn(1))
  /\ WF_vars(DeployWorkerReturn(1))
  /\ WF_vars(SetWorkerSecretReturn(1))
  /\ WF_vars(BatchSecretReturn(1))

\* A caller that drives the resumable protocol of setWorkerSecrets to its end.
SecretsResumeNext ==
  \/ ResumeBegin(1)
  \/ BatchSecretReturn(1)
  \/ ResumeAgain(1)
  \/ ResumeEnd(1)

SecretsResumeSpec == Init /\ [][SecretsResumeNext]_vars

(***************************************************************************)
(* Properties of deployMCPServer                                           *)
(***************************************************************************)
PlanStarted(d) == Len(d.calls) > 0

\* The namespace call answered success:true with the namespace it created.
NamespaceCreated(out) == Succeeded(out) /\ out.result /= Null

NamespaceFailed(d) == Len(d.returns) >= 1 /\ ~NamespaceCreated(d.returns[1])

CodeDeployFailed(d) == Len(d.returns) >= 2 /\ ~Succeeded(d.returns[2])

CodeDeploySucceeded(d) == Len(d.returns) >= 2 /\ Succeeded(d.returns[2])

Range(seq) == {seq[k] : k \in 1..Len(seq)}

\* The step entry that the namespace outcome out must have left behind.
NamespaceStepOf(out) ==
  IF NamespaceCreated(out) THEN [status |-> "success", result |-> out.result]
  ELSE [status |-> "failed", result |-> Null]

\* C1: once the deployWorker call has returned success:false or thrown, the
\* invocation is over with a FAILURE outcome: no setWorkerSecret call was or
\* will be issued, the StatefulBinding step was not performed, and the
\* outcome carries the namespace step as the namespace call left it.
C1_FatalCodeDeployAborts ==
  \A i \in Invocations :
    LET d == dep[i]
    IN CodeDeployFailed(d) =>
         /\ d.pc = "done"
         /\ d.response.kind = "deploy_failed"
         /\ DeployOutcomeStatus(d.response) = "FAILURE"
         /\ Len(d.calls) = 2
         /\ \A k \in 1..Len(d.calls) : d.calls[k].op /= "setWorkerSecret"
         /\ d.deploymentSteps.durableObjects.status = "pending"
         /\ d.response.completedSteps.kvNamespace = NamespaceStepOf(d.returns[1])

\* deployWorker has failed after a namespace was created.
C1_Witness ==
  /\ CodeDeployFailed(dep[1])
  /\ NamespaceCreated(dep[1].returns[1])
  /\ dep[1].returns[2].kind = "throw"

\* C2: the calls of an invocation are createKVNamespace, deployWorker, then
\* setWorkerSecret calls only; deployWorker is issued after createKVNamespace
\* has settled, a setWorkerSecret only after deployWorker succeeded, and
\* once the StatefulBinding step is done every call beyond the first two
\* belongs to an iteration of the secrets loop.
C2_FixedCallOrder ==
  \A i \in Invocations :
    LET d == dep[i]
    IN /\ \A k \in 1..Len(d.calls) :
            d.calls[k].op = (IF k = 1 THEN "createKVNamespace"
                             ELSE IF k = 2 THEN "deployWorker"
                             ELSE "setWorkerSecret")
       /\ Len(d.calls) >= 2 => Len(d.returns) >= 1
       /\ Len(d.calls) >= 3 => CodeDeploySucceeded(d)
       /\ d.deploymentSteps.durableObjects.status /= "pending" =>
            Len(d.calls) = 2 + Len(d.secretResults)
                             + (IF d.pc = "secret_wait" THEN 1 ELSE 0)

\* Secrets are being set although the namespace creation threw.
C2_Witness ==
  /\ dep[1].pc = "secret_wait"
  /\ Len(dep[1].calls) = 4
  /\ dep[1].returns[1].kind = "throw"

\* C3: when the namespace phase failed and the code deployment succeeded,
\* the finished invocation reports PARTIAL and carries the deployment result.
C3_NamespaceFailureIsPartial ==
  \A i \in Invocations :
    LET d == dep[i]
    IN (d.pc = "done" /\ NamespaceFailed(d) /\ CodeDeploySucceeded(d)) =>
         /\ DeployOutcomeStatus(d.response) = "PARTIAL"
         /\ d.response.kind = "deployed"
         /\ d.response.deploymentResult.deploymentSteps.workerDeployment.result
              = d.returns[2].result

AllPhasesSucceeded(d) ==
  /\ Len(d.returns) = 2 + Len(SecretsToSet(d.args))
  /\ NamespaceCreated(d.returns[1])
  /\ \A k \in 2..Len(d.returns) : Succeeded(d.returns[k])

\* C4: for a finished invocation whose plan started, the reported status is
\* SUCCESS iff every phase succeeded, FAILURE iff the code deployment
\* failed, and PARTIAL in every other case.
C4_StatusAggregation ==
  \A i \in Invocations :
    LET d == dep[i]
        status == DeployOutcomeStatus(d.response)
    IN (d.pc = "done" /\ PlanStarted(d)) =>
         /\ status = "SUCCESS" <=> AllPhasesSucceeded(d)
         /\ status = "FAILURE" <=> CodeDeployFailed(d)
         /\ status = "PARTIAL" <=> (~AllPhasesSucceeded(d) /\ ~CodeDeployFailed(d))

\* C5: at most one call is in flight; a call is issued only when every
\* earlier call of the invocation has returned or thrown.
C5_OneSecretInFlight ==
  \A i \in Invocations :
    LET d == dep[i]
    IN /\ Cardinality(d.inflight) <= 1
       /\ d.inflight \subseteq {Len(d.calls)}
       /\ Len(d.calls) <= Len(d.returns) + 1

\* The third secret is in flight after the first one threw.
C5_Witness ==
  /\ dep[1].pc = "secret_wait"
  /\ dep[1].inflight = {5}
  /\ dep[1].returns[3].kind = "throw"

\* C6: an invocation whose code deployment succeeded ends after exactly one
\* setWorkerSecret call per secret of the list, in list order, and
\* secretResults holds one entry per secret, in list order, telling what
\* that secret's call gave back.
C6_EverySecretAttemptedOnce ==
  \A i \in Invocations :
    LET d == dep[i]
        n == Len(d.secretsToSet)
    IN (d.pc = "done" /\ CodeDeploySucceeded(d)) =>
         /\ d.response.kind = "deployed"
         /\ Len(d.calls) = 2 + n
         /\ Len(d.returns) = 2 + n
         /\ Len(d.secretResults) = n
         /\ \A k \in 1..n :
              /\ d.calls[2 + k] = [op |-> "setWorkerSecret", arg |-> d.secretsToSet[k]]
              /\ d.secretResults[k].name = d.secretsToSet[k]
              /\ d.secretResults[k].status =
                   (IF Succeeded(d.returns[2 + k]) THEN "success" ELSE "failed")

\* Five secrets; the first one threw, the second was refused, the last
\* three were set.
C6_Witness ==
  /\ dep[1].pc = "done"
  /\ Len(dep[1].secretResults) = 5
  /\ dep[1].returns[3].kind = "throw"
  /\ dep[1].returns[4].kind = "envelope" /\ ~dep[1].returns[4].success
  /\ \A k \in 3..5 : dep[1].secretResults[k].status = "success"

SecretOrder ==
  <<"GITHUB_CLIENT_ID", "GITHUB_CLIENT_SECRET", "DATABASE_URL",
    "SUPABASE_URL", "SUPABASE_ANON_KEY">>

SecretListBuilt(d) == d.deploymentSteps.workerDeployment.status = "success"

\* The secret list follows SecretOrder, holds the two OAuth secrets, and
\* holds an optional secret only if its argument was supplied.
SecretListShape(d) ==
  /\ d.secretsToSet =
       SelectSeq(SecretOrder, LAMBDA n : n \in Range(d.secretsToSet))
  /\ {"GITHUB_CLIENT_ID", "GITHUB_CLIENT_SECRET"} \subseteq Range(d.secretsToSet)
  /\ "DATABASE_URL" \in Range(d.secretsToSet) => d.args.databaseUrl /= Undefined
  /\ "SUPABASE_URL" \in Range(d.secretsToSet) => d.args.supabaseUrl /= Undefined
  /\ "SUPABASE_ANON_KEY" \in Range(d.secretsToSet) =>
       d.args.supabaseAnonKey /= Undefined

\* C7 as stated: the list has the shape above and the database URL is in it
\* iff the databaseUrl argument was supplied.
C7_AsStated ==
  \A i \in Invocations :
    LET d == dep[i]
    IN SecretListBuilt(d) =>
         /\ SecretListShape(d)
         /\ "DATABASE_URL" \in Range(d.secretsToSet) <=> d.args.databaseUrl /= Undefined

\* C7: the list has the shape above and the database URL is in it iff the
\* databaseUrl argument was supplied and is not the empty string.
C7_SecretList ==
  \A i \in Invocations :
    LET d == dep[i]
    IN SecretListBuilt(d) =>
         /\ SecretListShape(d)
         /\ "DATABASE_URL" \in Range(d.secretsToSet) <=>
              (d.args.databaseUrl /= Undefined /\ d.args.databaseUrl /= "")

\* All three optional arguments supplied with a value: five secrets.
C7_Witness ==
  /\ SecretListBuilt(dep[1])
  /\ dep[1].args.databaseUrl = "value"
  /\ dep[1].args.supabaseUrl = "value"
  /\ dep[1].args.supabaseAnonKey = "value"
  /\ Len(dep[1].secretsToSet) = 5

(***************************************************************************)
(* Properties of setWorkerSecrets                                          *)
(***************************************************************************)
CredentialsPresent(env) ==
  Truthy(env.CLOUDFLARE_ACCOUNT_ID) /\ Truthy(env.CLOUDFLARE_API_TOKEN)

Responded(s) == s.pc = "done" /\ s.response.kind = "result"

\* The names of secrets[2..N]
OtherSecrets(secrets) == [k \in 1..(Len(secrets) - 1) |-> secrets[k + 1]]

\* C8: an invocation with credentials makes exactly one setWorkerSecret
\* call, for the first secret of its list, and its response reports the
\* other N-1 secrets, and only them, as pending.
C8_OnlyFirstSecretProcessed ==
  \A i \in Invocations :
    LET s == sws[i]
    IN (s.pc /= "idle" /\ CredentialsPresent(s.env)) =>
         /\ Len(s.calls) = 1
         /\ s.calls[1] = [op |-> "setWorkerSecret", arg |-> s.secrets[1]]
         /\ s.processed = 1
         /\ s.pc = "done" =>
              /\ s.response.kind = "result"
              /\ s.response.result.pendingSecrets = OtherSecrets(s.secrets)
              /\ Len(s.response.result.pendingSecrets) = Len(s.secrets) - 1

\* A list of three secrets has been answered: two are pending.
C8_Witness ==
  /\ Responded(sws[1])
  /\ Len(sws[1].secrets) = 3
  /\ Len(sws[1].response.result.pendingSecrets) = 2

\* This call repeats the list of a call that submitted a secret.
RepeatedCall(s) == s.pc /= "idle" /\ s.prevProcessed > 0 /\ s.processed > 0

\* C9: for a list of N > 1 secrets, the call that repeats the
\* list of a previous call submits the secret after the one that call
\* submitted.
C9_AsStated ==
  \A i \in Invocations :
    LET s == sws[i]
    IN (RepeatedCall(s) /\ Len(s.secrets) > 1 /\ s.prevProcessed < Len(s.secrets)) =>
         s.processed = s.prevProcessed + 1

NoSecretPending(s) ==
  Responded(s) /\ Len(s.response.result.pendingSecrets) = 0

\* C10: when the caller keeps repeating the call with the same
\* list (credentials present), a response without pending secrets
\* eventually comes.
C10_AsStated ==
  \A i \in {1} :
    [](sws[i].pc /= "idle" /\ CredentialsPresent(sws[i].env)
         => <>NoSecretPending(sws[i]))

\* C11: the status field of a setWorkerSecrets result is SUCCESS iff the
\* submitted secret succeeded and nothing is pending, PARTIAL iff it
\* succeeded and secrets are pending, FAILURE iff it failed.
C11_BatchStatus ==
  \A i \in Invocations :
    LET s == sws[i]
        status == s.response.result.status
        ok == Succeeded(s.returns[1])
        pending == Len(s.response.result.pendingSecrets) > 0
    IN Responded(s) =>
         /\ status = "SUCCESS" <=> (ok /\ ~pending)
         /\ status = "PARTIAL" <=> (ok /\ pending)
         /\ status = "FAILURE" <=> ~ok

\* The phase table a response shows to the operator.
ReportedSteps(r) ==
  IF r.kind = "deploy_failed" THEN r.completedSteps
  ELSE r.deploymentResult.deploymentSteps

PlanOutcome(d) ==
  d.pc = "done" /\ PlanStarted(d) /\ d.response.kind \in {"deploy_failed", "deployed"}

PhaseNames == {"kvNamespace", "durableObjects", "workerDeployment", "secrets"}

\* C19: an outcome returned after the plan started has no pending phase, and
\* a failed code deployment is recorded as failed.
C19_NoPendingPhase ==
  \A i \in Invocations :
    LET d == dep[i]
        steps == ReportedSteps(d.response)
    IN PlanOutcome(d) =>
         /\ \A p \in PhaseNames : steps[p].status /= "pending"
         /\ CodeDeployFailed(d) => steps.workerDeployment.status = "failed"

\* The message of the error raised in step 1 when the namespace is not
\* created.
NamespaceErrorMessage(out) ==
  IF out.kind = "throw" THEN out.message
  ELSE IF ~out.success
  THEN OrElse(FirstErrorMessage(out.errors), "Failed to create KV namespace")
  ELSE "Cannot read properties of null (reading 'id')"

CodeDeployErrorMessage(out) ==
  IF out.kind = "throw" THEN out.message
  ELSE OrElse(FirstErrorMessage(out.errors), "Worker deployment failed")

\* The error message a response attaches to a phase, Undefined if none.
ReportedPhaseError(r, phase) ==
  IF phase = "workerDeployment" /\ r.kind = "deploy_failed" THEN r.error
  ELSE IF "error" \in DOMAIN ReportedSteps(r)[phase]
  THEN ReportedSteps(r)[phase].error
  ELSE Undefined

\* C20: the response names every failed phase and carries the message of
\* its failure; for the namespace phase that is the message of the failed
\* namespace creation.
C20_FailedPhaseMessage ==
  \A i \in Invocations :
    LET d == dep[i]
        r == d.response
    IN PlanOutcome(d) =>
         /\ NamespaceFailed(d) =>
              /\ ReportedSteps(r).kvNamespace.status = "failed"
              /\ ReportedPhaseError(r, "kvNamespace") = NamespaceErrorMessage(d.returns[1])
         /\ CodeDeployFailed(d) =>
              /\ r.title = "Worker deployment failed"
              /\ ReportedPhaseError(r, "workerDeployment") = CodeDeployErrorMessage(d.returns[2])

MissingCredentials(d) == d.pc /= "idle" /\ ~CredentialsPresent(d.env)

\* Every secret of the list has been submitted and has settled.
PlanCompleted(d) ==
  /\ CodeDeploySucceeded(d)
  /\ Len(d.returns) = 2 + Len(d.secretsToSet)

\* C16: a throwing audit recorder changes nothing for the caller: no
\* exception leaves the handler and the response is the one the path gives
\* with a working recorder (configuration error, failed code deployment, or
\* the deployed result).
C16_AuditFailureHarmless ==
  \A i \in Invocations :
    LET d == dep[i]
    IN d.pc = "done" =>
         /\ d.response.kind /= "exception"
         /\ MissingCredentials(d) => d.response.kind = "config_error"
         /\ CodeDeployFailed(d) =>
              /\ d.response.kind = "deploy_failed"
              /\ d.response.error = CodeDeployErrorMessage(d.returns[2])
         /\ PlanCompleted(d) =>
              /\ d.response.kind = "deployed"
              /\ d.response.heading = "**Success**"

\* The phase outcomes an audit entry holds, read against what the calls
\* gave back.
AuditCarriesPhases(d, steps) ==
  /\ steps.kvNamespace.status =
       (IF NamespaceCreated(d.returns[1]) THEN "success" ELSE "failed")
  /\ CodeDeploySucceeded(d) =>
       /\ steps.workerDeployment.status = "success"
       /\ steps.durableObjects.status = "success"
       /\ steps.secrets.result /= Null
       /\ Len(steps.secrets.result.items) = Len(d.secretsToSet)
       /\ \A k \in 1..Len(d.secretsToSet) :
            /\ steps.secrets.result.items[k].name = d.secretsToSet[k]
            /\ steps.secrets.result.items[k].status =
                 (IF Succeeded(d.returns[2 + k]) THEN "success" ELSE "failed")

\* C17: whenever deployMCPServer returns a response the audit recorder has
\* been called, and the entry written for a completed or an aborted plan
\* holds the outcome of every phase that ran.
C17_AuditedBeforeResponse ==
  \A i \in Invocations :
    LET d == dep[i]
        last == d.audit[Len(d.audit)]
    IN (d.pc = "done" /\ d.response.kind /= "exception") =>
         /\ d.auditCalls >= 1
         /\ d.response.kind = "config_error" =>
              /\ Len(d.audit) = 1
              /\ ~last.success
         /\ d.response.kind = "deploy_failed" =>
              /\ Len(d.audit) = 1
              /\ ~last.success
              /\ last.details.error = CodeDeployErrorMessage(d.returns[2])
              /\ AuditCarriesPhases(d, last.details.steps)
         /\ d.response.kind = "deployed" =>
              /\ Len(d.audit) = 1
              /\ last.success
              /\ AuditCarriesPhases(d, last.details.deploymentSteps)
         /\ d.response.kind = "unexpected_error" =>
              /\ Len(d.audit) = 1
              /\ ~last.success

C17_Witness ==
  \E i \in Invocations :
    LET d == dep[i]
    IN /\ d.pc = "done"
       /\ d.response.kind = "deployed"
       /\ NamespaceFailed(d)
       /\ Len(d.secretsToSet) = 3
       /\ ~Succeeded(d.returns[4])
       /\ d.auditCalls = 1

\* C14: a request whose name does not match [A-Za-z0-9_-]+ (the empty name
\* included) never causes a client call.
C14_BadNameNoCalls ==
  \A i \in Invocations :
    LET d == dep[i]
        name == d.request.name
        wellFormed ==
          /\ name /= <<>>
          /\ \A k \in 1..Len(name) :
               name[k] \in LowerCaseLetters \cup UpperCaseLetters \cup Digits
                             \cup {"-", "_"}
    IN ~wellFormed => (Len(d.calls) = 0 /\ d.inflight = {})

\* A request with a name that starts well and ends badly has been rejected.
C14_Witness ==
  \E i \in Invocations :
    LET d == dep[i]
    IN /\ d.pc = "done"
       /\ Len(d.request.name) = 2
       /\ d.request.name[1] = "a"
       /\ d.request.name[2] = "\n"
       /\ d.request.code = PlainCode(1)
       /\ CredentialsPresent(d.env)
       /\ d.response.kind = "invalid_params"
       /\ Len(d.calls) = 0

\* C15: a code payload larger than 1MB never causes a client call of
\* deployMCPServer.
C15_OversizedCodeNoCalls ==
  /\ \A i \in Invocations :
       dep[i].request.code.length > MaxCodeLength => Len(dep[i].calls) = 0
  /\ (tool.tool = "deployWorker" /\ tool.args.code.length > MaxCodeLength)
       => Len(tool.calls) = 0

\* The tools that use the control-plane client.
ControlPlaneTools ==
  {"createKVNamespace", "deployWorker", "listWorkers", "getWorkerStatus", "deleteWorker"}

\* A control-plane tool invocation that runs without account id or token.
ToolWithoutCredentials ==
  /\ tool.tool \in ControlPlaneTools
  /\ tool.pc /= "idle"
  /\ ~(Truthy(tool.env.CLOUDFLARE_ACCOUNT_ID) /\ Truthy(tool.env.CLOUDFLARE_API_TOKEN))

\* The request passes the check a handler makes on its own arguments.
ToolArgumentsAccepted ==
  /\ tool.tool = "deployWorker" =>
       (~tool.args.code.blank /\ ~tool.args.code.dangerous
          /\ tool.args.code.length <= MaxCodeLength)
  /\ tool.tool = "deleteWorker" => tool.args.confirm

ConfigurationError(r) ==
  r.heading = "**Error**" /\ r.title = "Cloudflare credentials not configured"

\* C12: without credentials every control-plane tool makes no
\* remote call and answers with the configuration error.
C12_AsStated ==
  /\ \A i \in Invocations :
       /\ MissingCredentials(dep[i]) =>
            (Len(dep[i].calls) = 0 /\ ConfigurationError(dep[i].response))
       /\ (sws[i].pc /= "idle" /\ ~CredentialsPresent(sws[i].env)) =>
            (Len(sws[i].calls) = 0 /\ ConfigurationError(sws[i].response))
  /\ ToolWithoutCredentials =>
       (Len(tool.calls) = 0 /\ ConfigurationError(tool.response))

\* C13: without credentials the answer is the configuration
\* error whatever the other inputs are.
C13_AsStated ==
  ToolWithoutCredentials => ConfigurationError(tool.response)

\* What a settled call gave back is a failure: success:false, a thrown
\* transport or parse error, an error object of the database.
CallFailed(out) ==
  \/ out.kind = "throw"
  \/ out.kind = "envelope" /\ ~out.success
  \/ out.kind = "rpc" /\ out.error /= Null

\* The invocation of a single-call tool failed: its last remote or database
\* call failed (the audit insert apart, which is best effort).
ToolFailed ==
  /\ tool.pc = "done"
  /\ Len(tool.returns) > 0
  /\ tool.calls[Len(tool.returns)].op /= "insert"
  /\ CallFailed(tool.returns[Len(tool.returns)])

\* C18: every handler answers with a text response whatever its calls do,
\* and the text of an error outcome starts with **Error**.
C18_ErrorsAreTextResponses ==
  /\ tool.pc = "done" =>
       /\ tool.response.kind = "text"
       /\ ToolFailed => tool.response.heading = "**Error**"
  /\ \A i \in Invocations :
       /\ dep[i].pc = "done" =>
            /\ dep[i].response.kind \in {"config_error", "deploy_failed", "deployed"}
            /\ CodeDeployFailed(dep[i]) => dep[i].response.heading = "**Error**"
       /\ sws[i].pc = "done" =>
            /\ sws[i].response.kind \in {"config_error", "result"}
            /\ (Len(sws[i].returns) > 0 /\ CallFailed(sws[i].returns[1]))
                 => sws[i].response.heading = "**Error**"

\* A worker deletion whose delete request threw.
C18_Witness ==
  /\ tool.pc = "done"
  /\ tool.tool = "deleteWorker"
  /\ Len(tool.returns) = 2
  /\ tool.returns[2].kind = "throw"
  /\ tool.response.heading = "**Error**"
  /\ tool.response.title = "Error deleting worker"

\* C21: the generated configuration holds a namespace binding exactly when
\* the namespace was created, with the id the creation call returned, and
\* no binding when the namespace phase failed.
C21_ConfigReflectsNamespace ==
  \A i \in Invocations :
    LET d == dep[i]
        bindings == d.response.deploymentResult.wranglerConfig.kv_namespaces
    IN (d.pc = "done" /\ d.response.kind = "deployed") =>
         IF NamespaceCreated(d.returns[1])
         THEN /\ Len(bindings) = 1
              /\ bindings[1].binding = "OAUTH_KV"
              /\ bindings[1].id = d.returns[1].result.id
         ELSE bindings = <<>>

C21_Witness ==
  \E i \in Invocations :
    LET d == dep[i]
    IN /\ d.pc = "done"
       /\ d.response.kind = "deployed"
       /\ d.returns[1] = Envelope(FALSE, <<"first error", "second error">>, Null)
       /\ d.response.deploymentResult.wranglerConfig.kv_namespaces = <<>>
       /\ Len(d.response.deploymentResult.wranglerConfig.durable_objects) = 1

\* The settings endpoint of getWorker answered 404.
SettingsNotFound(c) ==
  /\ c.method = "getWorker"
  /\ Len(c.responses) > 0
  /\ c.responses[1].kind = "http"
  /\ c.responses[1].status = 404

\* C22: a method call of the client issues exactly one fetch; getWorker
\* issues exactly one, and exactly one more, to the domains endpoint, when the
\* settings endpoint answers 404, and then returns a synthesized success.
\* No request is sent again.
C22_OneFetchPerCall ==
  /\ Len(client.fetches) <= Len(client.responses) + 1
  /\ client.pc = "done" =>
       IF SettingsNotFound(client)
       THEN /\ Len(client.fetches) = 2
            /\ client.fetches[2] = [verb |-> "GET", path |-> "domains"]
            /\ client.result.kind = "envelope"
            /\ client.result.success
            /\ client.result.result.source \in {"domains", "catch"}
       ELSE /\ Len(client.fetches) = 1
            /\ client.fetches[1] = Endpoint(client.method)

C22_Witness ==
  /\ client.pc = "done"
  /\ SettingsNotFound(client)
  /\ Len(client.fetches) = 2
  /\ client.responses[2].kind = "http"
  /\ client.result = Envelope(TRUE, <<>>, WorkerInfo("domains"))

\* The last answer of a finished call was a transport failure: the fetch
\* rejected, or the body could not be parsed as JSON.
TransportFailure(c) ==
  LET last == c.responses[Len(c.responses)]
  IN \/ last.kind = "network_error"
     \/ last.kind = "http" /\ last.body.kind = "text"

\* C23: a method call of the client returns an envelope or throws the
\* transport failure; a rejected fetch or an unparsable body is never
\* returned as a success envelope.
C23_TransportFailureRaised ==
  client.pc = "done" =>
    /\ client.result.kind \in {"envelope", "throw"}
    /\ TransportFailure(client) => client.result.kind = "throw"

\* The provider answered success:false and listed at least one error.
RemoteError(out) ==
  out.kind = "envelope" /\ ~out.success /\ Len(out.errors) > 0

\* The message of the first error of the answer to a call of method op.
FirstMessageOf(op, out) ==
  IF op = "getWorker" THEN out.errors[1].message ELSE out.errors[1]

\* C24: when a remote call answers success:false with a non-empty error
\* list, the message the handler shows is the message of the first error,
\* unchanged: in deployWorker, listWorkers, deleteWorker, createKVNamespace,
\* setWorkerSecrets and in each phase of deployMCPServer.
C24_FirstErrorSurfaced ==
  /\ (/\ tool.pc = "done"
      /\ tool.tool \in {"deployWorker", "listWorkers", "deleteWorker", "createKVNamespace"}
      /\ Len(tool.returns) > 0)
       => LET n == Len(tool.returns)
          IN RemoteError(tool.returns[n]) =>
               tool.response.rest = FirstMessageOf(tool.calls[n].op, tool.returns[n])
  /\ \A i \in Invocations :
       /\ (Responded(sws[i]) /\ RemoteError(sws[i].returns[1])) =>
            /\ Len(sws[i].response.result.failedSecrets) = 1
            /\ sws[i].response.result.failedSecrets[1].error = sws[i].returns[1].errors[1]
       /\ PlanOutcome(dep[i]) =>
            LET d == dep[i]
                r == d.response
            IN /\ RemoteError(d.returns[1]) =>
                    ReportedPhaseError(r, "kvNamespace") = d.returns[1].errors[1]
               /\ (Len(d.returns) >= 2 /\ RemoteError(d.returns[2])) =>
                    ReportedPhaseError(r, "workerDeployment") = d.returns[2].errors[1]
               /\ \A k \in 1..(Len(d.returns) - 2) :
                    RemoteError(d.returns[2 + k]) =>
                      ReportedSteps(r).secrets.result.items[k].error = d.returns[2 + k].errors[1]

\* The remote methods of the control plane.
ControlPlaneCalls ==
  {"fetch", "listWorkers", "deployWorker", "getWorker", "deleteWorker",
   "setWorkerSecret", "createKVNamespace"}

\* name is the class name in capitals followed by _OBJECT.
UpperCasedWithSuffix(name, className) ==
  /\ Len(name) = Len(className) + 1
  /\ name[Len(name)] = "_OBJECT"
  /\ \A k \in 1..Len(className) :
       /\ name[k] \notin LowerCaseLetters
       /\ className[k] \notin LowerCaseLetters => name[k] = className[k]
       /\ className[k] \in LowerCaseLetters =>
            \E n \in 1..26 : Alphabet[n] = className[k] /\ CapitalAlphabet[n] = name[k]

\* C25 as stated: manageDurableObjects never calls the control plane and
\* answers success for every schema-valid input, whatever the environment.
C25_AsStated ==
  tool.tool = "manageDurableObjects" =>
    /\ \A k \in 1..Len(tool.calls) : tool.calls[k].op \notin ControlPlaneCalls
    /\ tool.pc = "done" => tool.response.heading = "**Success**"

\* C25: manageDurableObjects never calls the control plane.  With account id
\* and token set it answers success for every schema-valid input, and the
\* binding name it returns is the class name in capitals followed by _OBJECT;
\* with one of them missing it answers the credentials error.
C25_ConfiguratorIsLocal ==
  tool.tool = "manageDurableObjects" =>
    /\ \A k \in 1..Len(tool.calls) : tool.calls[k].op \notin ControlPlaneCalls
    /\ tool.pc = "done" =>
         IF Truthy(tool.env.CLOUDFLARE_ACCOUNT_ID) /\ Truthy(tool.env.CLOUDFLARE_API_TOKEN)
         THEN /\ tool.response.heading = "**Success**"
              /\ tool.response.result.className = tool.args.className
              /\ UpperCasedWithSuffix(tool.response.result.bindingName,
                                      tool.args.className)
         ELSE /\ tool.response.heading = "**Error**"
              /\ tool.response.title = "Cloudflare credentials not configured"
              /\ tool.calls = <<>>

C25_Witness ==
  /\ tool.tool = "manageDurableObjects"
  /\ tool.pc = "done"
  /\ tool.args.className = <<"M", "y">>
  /\ Len(tool.returns) = 1
  /\ tool.response.heading = "**Success**"
  /\ tool.response.result.bindingName = <<"M", "Y", "_OBJECT">>

\* The allowlist that gates a tool of registerAllTools; the unprivileged
\* tools have none.
GatedTools ==
  {"executeDatabase", "deployWorker", "listWorkers", "getWorkerStatus", "deleteWorker",
   "createKVNamespace", "manageDurableObjects", "setWorkerSecrets", "deployMCPServer"}

AllowlistOf(name) ==
  IF name = "executeDatabase" THEN DATABASE_WRITE_USERS
  ELSE IF name \in {"deployWorker", "listWorkers", "getWorkerStatus", "deleteWorker"}
  THEN DEPLOYMENT_USERS
  ELSE INFRASTRUCTURE_ADMINS

\* C26: registration is gated by the login.  registerDatabaseTools makes
\* exactly the two registrations listTables and queryDatabase for a login
\* outside its allowlist and adds executeDatabase exactly for a login in it;
\* registerAllTools registers whoami, listTables and queryDatabase for every
\* login and each other tool exactly when the login is in that tool's
\* allowlist; no tool is registered twice; and the same login gets the same
\* registrations whatever the environment and the other properties are.
C26_RegistrationGatedByLogin ==
  server.pc = "registered" =>
    LET login == server.props.login
        registered == Range(server.tools)
    IN /\ Len(server.tools) = Cardinality(registered)
       /\ server.entry = "registerDatabaseTools" =>
            /\ login \notin ALLOWED_USERNAMES =>
                 server.tools = <<"listTables", "queryDatabase">>
            /\ login \in ALLOWED_USERNAMES =>
                 registered = {"listTables", "queryDatabase", "executeDatabase"}
            /\ \A env \in ToolEnvs, props \in PropsSet :
                 props.login = login =>
                   registerDatabaseTools(<<>>, env, props) = server.tools
       /\ server.entry = "registerAllTools" =>
            /\ {"whoami", "listTables", "queryDatabase"} \subseteq registered
            /\ registered \subseteq {"whoami", "listTables", "queryDatabase"} \cup GatedTools
            /\ \A name \in GatedTools :
                 name \in registered <=> login \in AllowlistOf(name)
            /\ \A env \in ToolEnvs, props \in PropsSet :
                 props.login = login =>
                   registerAllTools(<<>>, env, props) = server.tools

C26_Witness ==
  /\ server.pc = "registered"
  /\ server.entry = "registerAllTools"
  /\ server.props.login = "coleam00"
  /\ server.env.CLOUDFLARE_API_TOKEN = "token"
  /\ server.tools = <<"whoami", "listTables", "queryDatabase">>

\* The rpc calls of the running tool invocation.
RpcCalls == SelectSeq(tool.calls, LAMBDA c : c.op = "rpc")

DatabaseConfigured == Truthy(tool.env.SUPABASE_URL) /\ Truthy(tool.env.SUPABASE_ANON_KEY)

\* C27 as stated: queryDatabase answers a rejected statement and a write
\* statement with an error text and no rpc call; executeDatabase makes no rpc
\* call for a rejected statement and exactly one for an accepted one.
C27_AsStated ==
  /\ (tool.tool = "queryDatabase" /\ tool.pc /= "idle"
        /\ (~tool.args.sql.valid \/ tool.args.sql.write)) =>
       /\ RpcCalls = <<>>
       /\ tool.pc = "done"
       /\ tool.response.heading = "**Error**"
  /\ (tool.tool = "executeDatabase" /\ tool.pc /= "idle") =>
       IF tool.args.sql.valid THEN Len(RpcCalls) = 1 ELSE RpcCalls = <<>>

\* C27: queryDatabase answers a rejected statement and a write statement
\* with an error text and no rpc call; executeDatabase makes no rpc call for a
\* rejected statement, and for an accepted one exactly one execute_sql call
\* when the database URL and key are set and none when one is missing.
C27_RejectedNeverSent ==
  /\ (tool.tool = "queryDatabase" /\ tool.pc /= "idle"
        /\ (~tool.args.sql.valid \/ tool.args.sql.write)) =>
       /\ RpcCalls = <<>>
       /\ tool.pc = "done"
       /\ tool.response.heading = "**Error**"
  /\ (tool.tool = "executeDatabase" /\ tool.pc /= "idle") =>
       IF tool.args.sql.valid /\ DatabaseConfigured
       THEN RpcCalls = <<[op |-> "rpc", arg |-> "execute_sql"]>>
       ELSE /\ RpcCalls = <<>>
            /\ tool.pc = "done"
            /\ tool.response.heading = "**Error**"

C27_Witness ==
  /\ tool.tool = "queryDatabase"
  /\ tool.pc = "done"
  /\ tool.args.sql = [valid |-> TRUE, write |-> TRUE]
  /\ DatabaseConfigured
  /\ tool.calls = <<>>
  /\ tool.response.title = "Write operations are not allowed with this tool."

\* The calls that create or set something; the client has others that
\* remove (deleteWorker) or read.
ForwardCalls == {"createKVNamespace", "deployWorker", "setWorkerSecret"}

\* C28: deployMCPServer never undoes a phase: every remote call it issues is
\* the namespace creation, the code deployment or the setting of a secret,
\* each phase is called once and in that order, and an invocation whose code
\* deployment failed ends with those two calls also when the namespace had
\* been created.
C28_NoRollback ==
  \A i \in Invocations :
    LET d == dep[i]
    IN /\ \A k \in 1..Len(d.calls) :
            /\ d.calls[k].op \in ForwardCalls
            /\ d.calls[k].op = "createKVNamespace" <=> k = 1
            /\ d.calls[k].op = "deployWorker" <=> k = 2
       /\ (d.pc = "done" /\ CodeDeployFailed(d)) => Len(d.calls) = 2

C28_Witness ==
  /\ dep[1].pc = "done"
  /\ dep[1].response.kind = "deploy_failed"
  /\ NamespaceCreated(dep[1].returns[1])
  /\ dep[1].returns[2] = Envelope(FALSE, <<"first error", "second error">>, Null)
  /\ Len(dep[1].calls) = 2
  /\ dep[1].response.completedSteps.kvNamespace.status = "success"

\* The deployMCPServer handler resumed with out, wherever it is suspended.
DeployResume(d, out) ==
  IF d.pc = "kv_wait" THEN KvSettle(d, out)
  ELSE IF d.pc = "deploy_wait" THEN DeploySettle(d, out)
  ELSE SecretSettle(d, out)

\* The invocation run alone: started with env and args and resumed with the
\* first n of the remote responses, one after the other.
RECURSIVE DeployAlone(_, _, _, _)
DeployAlone(env, args, returns, n) ==
  IF n = 0 THEN DeployStart(env, args)
  ELSE DeployResume(DeployAlone(env, args, returns, n - 1), returns[n])

SecretsAlone(env, secrets, returns) ==
  IF Len(returns) = 0 THEN SwsStart(env, secrets, 0)
  ELSE SwsSettle(SwsStart(env, secrets, 0), returns[1])

\* C29: invocations share no state.  Whatever the other invocation does in
\* between, an invocation of deployMCPServer or of setWorkerSecrets is at
\* every moment where it is when run alone with the same request and the
\* same remote responses, and so is its outcome.
C29_InterleavingIndependent ==
  \A i \in Invocations :
    /\ dep[i].pc /= "idle" =>
         dep[i] = DeployAlone(dep[i].env, dep[i].args, dep[i].returns, Len(dep[i].returns))
    /\ sws[i].pc /= "idle" =>
         sws[i] = SecretsAlone(sws[i].env, sws[i].secrets, sws[i].returns)

\* Both invocations under way, the second one further than the first, with
\* different namespaces.
C29_Witness ==
  /\ dep[1].pc = "deploy_wait"
  /\ dep[2].pc = "done"
  /\ dep[2].response.kind = "deployed"
  /\ NamespaceCreated(dep[1].returns[1])
  /\ ~NamespaceCreated(dep[2].returns[1])
  /\ dep[1].deploymentSteps.kvNamespace.status = "success"
  /\ dep[2].response.deploymentResult.deploymentSteps.kvNamespace.status = "failed"

\* C30: deleteWorker makes no remote call unless confirm is true; its DELETE
\* call is its second call, issued after the getWorker call has returned
\* success; and when getWorker reports failure the invocation is over with
\* the "not found" error and the getWorker call as its only call.
C30_DeleteAfterCheck ==
  tool.tool = "deleteWorker" =>
    /\ ~tool.args.confirm => tool.calls = <<>>
    /\ \A k \in 1..Len(tool.calls) :
         tool.calls[k].op = "deleteWorker" =>
           /\ k = 2
           /\ tool.calls[1].op = "getWorker"
           /\ Len(tool.returns) >= 1
           /\ tool.returns[1].success
    /\ (Len(tool.returns) >= 1 /\ ~tool.returns[1].success) =>
         /\ tool.pc = "done"
         /\ tool.response.heading = "**Error**"
         /\ tool.response.title = "Worker not found"
         /\ tool.calls = <<[op |-> "getWorker", arg |-> "name"]>>

C30_Witness ==
  /\ tool.tool = "deleteWorker"
  /\ tool.pc = "done"
  /\ tool.args.confirm
  /\ Len(tool.returns) = 1
  /\ ~tool.returns[1].success
  /\ Len(tool.returns[1].errors) = 1
  /\ tool.returns[1].errors[1].code = 10000
  /\ tool.response.title = "Worker not found"

\* The existence check of deleteWorker found no worker: the settings endpoint
\* answered 404 (the result built from the domains request), or a request or
\* its parsing failed (the result built in the catch block of getWorker).
WorkerNotConfirmed ==
  /\ tool.tool = "deleteWorker"
  /\ Len(tool.returns) >= 1
  /\ tool.returns[1].success
  /\ tool.returns[1].result /= Null
  /\ tool.returns[1].result.source \in {"domains", "catch"}

\* C31: when the settings endpoint answers 404 for the worker, or the
\* existence check hits a transport error, deleteWorker issues no DELETE call
\* and does not report the worker as deleted.
C31_NoDeleteWithoutWorker ==
  WorkerNotConfirmed =>
    /\ \A k \in 1..Len(tool.calls) : tool.calls[k].op /= "deleteWorker"
    /\ tool.pc = "done" => tool.response.heading /= "**Success**"

\* The names of the failedSecrets entries of a result.
FailedNames(result) ==
  [k \in 1..Len(result.failedSecrets) |-> result.failedSecrets[k].secret]

\* C32: in every setWorkerSecrets response the three lists partition the
\* requested list: the first secret is the one entry of successfulSecrets
\* and failedSecrets together (successful if its call succeeded, failed if
\* not), the pending list is the rest of the request in order, and the sizes
\* sum to totalSecrets, the length of the request.
C32_ListsPartitionRequest ==
  \A i \in Invocations :
    LET s == sws[i]
        result == s.response.result
    IN Responded(s) =>
         /\ result.totalSecrets = Len(s.secrets)
         /\ Len(result.successfulSecrets) + Len(result.failedSecrets)
              + Len(result.pendingSecrets) = result.totalSecrets
         /\ Len(result.successfulSecrets) + Len(result.failedSecrets) = 1
         /\ result.successfulSecrets \o FailedNames(result) \o result.pendingSecrets
              = s.secrets
         /\ Len(result.successfulSecrets) = 1 <=> Succeeded(s.returns[1])

\* A list of three with a repeated name: the first entry failed, the two
\* others are pending.
C32_Witness ==
  /\ Responded(sws[1])
  /\ sws[1].secrets = <<"ALPHA", "BETA", "ALPHA">>
  /\ sws[1].response.result.successfulSecrets = <<>>
  /\ FailedNames(sws[1].response.result) = <<"ALPHA">>
  /\ sws[1].response.result.pendingSecrets = <<"BETA", "ALPHA">>

\* The heading that goes with a status.
HeadingOf(status) ==
  IF status = "SUCCESS" THEN "**Success**"
  ELSE IF status = "PARTIAL" THEN "**Partial Success**"
  ELSE "**Error**"

\* C33: the heading of a setWorkerSecrets response agrees with the status
\* field of the result it embeds: **Success** with SUCCESS, **Partial
\* Success** with PARTIAL, **Error** with FAILURE.
C33_HeadingAgreesWithStatus ==
  \A i \in Invocations :
    Responded(sws[i]) =>
      /\ sws[i].response.result.status \in {"SUCCESS", "PARTIAL", "FAILURE"}
      /\ sws[i].response.heading = HeadingOf(sws[i].response.result.status)

\* The success flag of the audit entry an invocation recorded last.
RecordedSuccess(audit) == audit[Len(audit)].success

\* C34: the success flag of the audit entry agrees with the outcome.
\* setWorkerSecrets records success exactly when the status field of the
\* result is SUCCESS, deployMCPServer exactly when every phase of the plan
\* succeeded; a failed phase or a pending secret is recorded as no success.
C34_AuditAgreesWithOutcome ==
  \A i \in Invocations :
    /\ Responded(sws[i]) =>
         /\ Len(sws[i].audit) = 1
         /\ RecordedSuccess(sws[i].audit) <=> sws[i].response.result.status = "SUCCESS"
    /\ PlanOutcome(dep[i]) =>
         /\ Len(dep[i].audit) = 1
         /\ RecordedSuccess(dep[i].audit) <=> AllPhasesSucceeded(dep[i])

\* The first n entries of a list, and the entries after them.
FirstOf(seq, n) == SubSeq(seq, 1, n)

RestOf(seq, n) == SubSeq(seq, n + 1, Len(seq))

\* C35: in a run of the protocol that began with a list of N secrets, the
\* k-th call submits the k-th secret of that list and nothing else, and its
\* response reports the secrets after the k-th as pending; so after N calls
\* every secret has been submitted exactly once, in the original order, and
\* the last response reports no pending secret.
C35_ResumeSubmitsEachOnce ==
  LET s == sws[1]
      k == caller.invocations
  IN (k > 0 /\ CredentialsPresent(s.env)) =>
       /\ k <= Len(caller.initial)
       /\ caller.submitted = FirstOf(caller.initial, k)
       /\ Responded(s) =>
            /\ s.response.result.pendingSecrets = RestOf(caller.initial, k)
            /\ k = Len(caller.initial) =>
                 /\ caller.submitted = caller.initial
                 /\ s.response.result.pendingSecrets = <<>>

\* The third call for a list of three has been answered; the second secret
\* had failed on the way.
C35_Witness ==
  /\ caller.invocations = 3
  /\ caller.initial = <<"ALPHA", "BETA", "ALPHA">>
  /\ caller.submitted = caller.initial
  /\ Responded(sws[1])
  /\ sws[1].secrets = <<"ALPHA">>
  /\ sws[1].response.result.pendingSecrets = <<>>

\* The positions of the secret list whose setWorkerSecret call succeeded; the
\* call for the k-th secret is the (2 + k)-th remote call of the invocation.
SecretsAccepted(d) ==
  {k \in 1..Len(d.secretsToSet) : Succeeded(d.returns[2 + k])}

\* The names at a set of positions of the secret list, in list order.
NamesAt(d, positions) ==
  LET sel == SelectSeq([k \in 1..Len(d.secretsToSet) |-> k], LAMBDA k : k \in positions)
  IN [j \in 1..Len(sel) |-> d.secretsToSet[sel[j]]]

FailedSecretNames(r) ==
  [k \in 1..Len(r.secrets.failed) |-> r.secrets.failed[k].name]

\* C36: in a deployed outcome the status of the Secrets phase is success iff
\* every setWorkerSecret call succeeded, failed iff none did and partial iff
\* some but not all did; the configured names are the secrets whose call
\* succeeded, the failed names the others, so the two lists partition the
\* secret list.
C36_SecretsPhaseStatus ==
  \A i \in Invocations :
    (dep[i].pc = "done" /\ dep[i].response.kind = "deployed") =>
      LET d == dep[i]
          r == d.response.deploymentResult
          n == Len(d.secretsToSet)
          ok == SecretsAccepted(d)
          status == r.deploymentSteps.secrets.status
      IN /\ status \in {"success", "failed", "partial"}
         /\ status = "success" <=> Cardinality(ok) = n
         /\ status = "failed" <=> Cardinality(ok) = 0
         /\ status = "partial" <=> (0 < Cardinality(ok) /\ Cardinality(ok) < n)
         /\ r.secrets.configured = NamesAt(d, ok)
         /\ FailedSecretNames(r) = NamesAt(d, (1..n) \ ok)
         /\ Range(r.secrets.configured) \cap Range(FailedSecretNames(r)) = {}
         /\ Range(r.secrets.configured) \cup Range(FailedSecretNames(r))
              = Range(d.secretsToSet)

\* Five secrets, the second and fourth refused.
C36_Witness ==
  /\ dep[1].pc = "done"
  /\ dep[1].response.kind = "deployed"
  /\ Len(dep[1].secretsToSet) = 5
  /\ SecretsAccepted(dep[1]) = {1, 3, 5}
  /\ dep[1].response.deploymentResult.deploymentSteps.secrets.status = "partial"
  /\ Len(dep[1].response.deploymentResult.secrets.failed) = 2

\* The reason deployWorker must give for refusing a code payload, "" when the
\* payload is acceptable: empty before dangerous before too large.
ExpectedRejection(code) ==
  IF code.blank THEN "Worker code cannot be empty"
  ELSE IF code.dangerous THEN "Code contains potentially dangerous patterns"
  ELSE IF code.length >= 1048577 THEN "Code is too large (maximum 1MB allowed)"
  ELSE ""

\* C40: deployWorker refuses code that is empty after trimming as empty,
\* otherwise code with a dangerous pattern as dangerous, otherwise code longer
\* than 1048576 characters as too large; a refusal makes no remote call and
\* records one failed audit entry carrying the reason.  Code of exactly
\* 1048576 characters with no dangerous pattern passes validation.
C40_ValidationOrderAndBound ==
  (tool.tool = "deployWorker" /\ tool.pc /= "idle") =>
    LET reason == ExpectedRejection(tool.args.code)
    IN IF reason /= ""
       THEN /\ tool.pc = "done"
            /\ tool.calls = <<>>
            /\ tool.response.heading = "**Error**"
            /\ tool.response.title = "Code validation failed"
            /\ tool.response.rest = reason
            /\ Len(tool.audit) = 1
            /\ tool.audit[1].operation = "deploy"
            /\ ~tool.audit[1].success
            /\ tool.audit[1].details = [error |-> reason]
       ELSE /\ (tool.pc = "done" => tool.response.title /= "Code validation failed")
            /\ CredentialsPresent(tool.env) => Len(tool.calls) = 1

\* Blank code of 1048577 characters has been refused as empty.
C40_Witness ==
  /\ tool.tool = "deployWorker"
  /\ tool.pc = "done"
  /\ tool.args.code = [length |-> 1048577, blank |-> TRUE, dangerous |-> FALSE]
  /\ tool.response.rest = "Worker code cannot be empty"
  /\ tool.calls = <<>>

\* How many of the remote calls of d were of operation op with argument arg.
CallCount(d, op, arg) ==
  Cardinality({k \in 1..Len(d.calls) : d.calls[k] = [op |-> op, arg |-> arg]})

\* C37: one deployMCPServer invocation calls createKVNamespace at most once,
\* deployWorker at most once and setWorkerSecret at most once per secret,
\* whatever the calls gave back; it makes at most 2 + (number of secrets)
\* remote calls, hence at most 7, and no call of another operation.
C37_NoRetry ==
  \A i \in Invocations :
    LET d == dep[i]
    IN /\ CallCount(d, "createKVNamespace", "oauth-kv") <= 1
       /\ CallCount(d, "deployWorker", "name") <= 1
       /\ \A name \in Range(SecretsToSet(d.args)) :
            CallCount(d, "setWorkerSecret", name) <= 1
       /\ \A k \in 1..Len(d.calls) :
            \/ d.calls[k].op \in {"createKVNamespace", "deployWorker"}
            \/ /\ d.calls[k].op = "setWorkerSecret"
               /\ d.calls[k].arg \in Range(SecretsToSet(d.args))
       /\ Len(d.calls) <= 2 + Len(SecretsToSet(d.args))
       /\ Len(d.calls) <= 7

\* Every call of a full plan failed but the code deployment: seven calls, no
\* one repeated.
C37_Witness ==
  /\ dep[1].pc = "done"
  /\ Len(dep[1].calls) = 7
  /\ ~Succeeded(dep[1].returns[1])
  /\ Succeeded(dep[1].returns[2])
  /\ \A k \in 3..7 : ~Succeeded(dep[1].returns[k])

\* The handler of d, or of s, has returned its response.
DeployAnswered(d) == d.pc = "done" /\ d.response.kind /= "none"

SecretsAnswered(s) == s.pc = "done" /\ s.response.kind /= "none"

\* C38: when every remote call eventually returns or throws, an invocation
\* of deployMCPServer or of setWorkerSecrets eventually returns a response;
\* it has no response while it runs, and the response it returned is not
\* replaced by another one.
C38_TerminatesWithOneResponse ==
  /\ (dep[1].pc /= "idle") ~> DeployAnswered(dep[1])
  /\ (sws[1].pc /= "idle") ~> SecretsAnswered(sws[1])
  /\ [](dep[1].pc /= "done" => dep[1].response.kind = "none")
  /\ [](sws[1].pc /= "done" => sws[1].response.kind = "none")
  /\ [][/\ DeployAnswered(dep[1]) => dep'[1] \in {dep[1], DeployIdle}
        /\ SecretsAnswered(sws[1]) => sws'[1] \in {sws[1], SwsIdle}]_vars

\* deployMCPServer answered after seven remote calls of which the first and
\* the last threw.
C38_Witness ==
  /\ DeployAnswered(dep[1])
  /\ Len(dep[1].returns) = 7
  /\ dep[1].returns[1].kind = "throw"
  /\ dep[1].returns[7].kind = "throw"

DatabaseToolNames == {"listTables", "queryDatabase", "executeDatabase"}

\* The database tools a session gets from the three separate registration
\* functions, as registerAllTools calls them.
SeparateDatabaseTools(env, props) ==
  Range(registerExecuteDatabase(
          registerQueryDatabase(registerListTables(<<>>, env, props), env, props),
          env, props))

\* C39: whichever path registered the tools of a session, the database tools
\* it has are the ones the other path would have given the same login; in
\* particular both paths give executeDatabase to the same logins.
C39_DatabasePathsEquivalent ==
  server.pc = "registered" =>
    LET separate == SeparateDatabaseTools(server.env, server.props)
        together == Range(registerDatabaseTools(<<>>, server.env, server.props))
    IN /\ together = separate
       /\ Range(server.tools) \cap DatabaseToolNames = separate
       /\ Range(server.tools) \cap DatabaseToolNames = together

====
